---- MODULE Spec2Model ----
(***************************************************************************)
(* Model of the model-access layer of Ryunex AI.                           *)
(*                                                                         *)
(*  - Chat.jsx: the Chat component, its failover loop over MODEL_CONFIG    *)
(*    (handleSendMessage) and its persisted cursor 'activeModelConfig'.    *)
(*  - api.js (src/unnamed/part_000): GeminiManager.generateResponse and    *)
(*    callGeminiAPI, the key-rotating client used by MainChat.jsx.         *)
(*  - storage.js (src/unnamed/part_000): the daily usage record and the    *)
(*    persisted conversation list.                                         *)
(*  - MainChat.jsx, Sidebar.jsx: handleSendMessage of MainChat and the     *)
(*    conversation operations of the sidebar.                              *)
(*                                                                         *)
(* JavaScript strings are modelled as sequences of word tokens, so that    *)
(* concatenation (\o), emptiness (falsy "") and String.includes are        *)
(* computed rather than assumed.  JavaScript array indices are 0-based;    *)
(* TLA+ sequences are 1-based, so arr[i] is modelled as seq[i + 1].        *)
(***************************************************************************)
EXTENDS Integers, Sequences, FiniteSets, TLC

(***************************************************************************)
(* Bounds of the model.                                                    *)
(***************************************************************************)
\* Largest number of entries of MODEL_CONFIG explored.
MaxModels == 3
\* Largest number of apiKeys per MODEL_CONFIG entry explored.
MaxKeys == 2
\* Number of admitted sends per session of the Chat component.
MaxSends == 1
\* Largest number of keys given to a GeminiManager.
MaxApiKeys == 3
\* Number of callGeminiAPI calls per session.
MaxCalls == 2
\* Last calendar day explored (the session starts on day 1).
MaxDay == 2
\* Number of admitted sends per session of MainChat.
MaxMainSends == 2
\* Largest conversation id handed out per session (ids start at 1).
MaxChatId == 3
\* Number of admitted sends per session when the sidebar is used as well.
MaxAppSends == 1
\* Largest count the usage record is driven to by direct calls of storage.js.
MaxUsageCount == 27
MaxStoreChats == 2
MaxSwitchSends == 2
\* Number of admitted sends of the Chat component when the cursor is followed.
MaxCursorSends == 2
\* Largest id Date.now() gives to a conversation of Chat.jsx.
MaxConversationId == 3
MaxMessages == 2

(***************************************************************************)
(* Program constants.                                                      *)
(***************************************************************************)
MAX_DAILY_MESSAGES == 25

(***************************************************************************)
(* State.                                                                  *)
(***************************************************************************)
VARIABLES
    root,               \* the component the page renders: "Chat" or "MainChat"
    \* ---- Chat.jsx ----
    MODEL_CONFIG,       \* the table: sequence of [id, apiKeys]
    lsModelConfig,      \* localStorage['activeModelConfig'] (NoItem when absent)
    lsDailyUsage,       \* localStorage['dailyUsage'] (NoItem when absent)
    today,              \* new Date().toDateString(), as a day number
    mounted,            \* the component has rendered and run its mount effects
    activeModelIndex,   \* React state
    activeKeyIndex,     \* React state
    isLoading,          \* React state
    notification,       \* React state (token sequence, <<>> for null)
    dailyUsage,         \* React state [count, date]
    messages,           \* messages of the current conversation
    lsChatHistory,      \* localStorage['chatHistory']: its messages (NoItem when absent)
    \* locals of the handleSendMessage invocation in flight
    entryModelIndex,    \* activeModelIndex as captured by the closure
    entryKeyIndex,      \* activeKeyIndex as captured by the closure
    currentModelIdx,
    currentKeyIdx,
    updatedMessages,
    \* observation of the send in flight / last finished
    requests,           \* fetches issued by this send, in order
    cursorWrites,       \* writes of 'activeModelConfig' caused by this send
    lastResp,           \* what the last settled fetch of this send answered
    sendResult,         \* [success, botText] of the finished send
    sends,              \* admitted sends so far
    fetching,           \* runs of handleSendMessage awaiting a fetch
    pendingClears,      \* setTimeout(() => setNotification(null)) timers pending
    pc,                 \* "idle", or "fetch" while awaiting fetch
    \* ---- api.js: GeminiManager and callGeminiAPI ----
    apiKeys,            \* this.apiKeys
    currentKeyIndex,    \* this.currentKeyIndex
    attempts,           \* local of generateResponse
    signal,             \* "none" (no signal passed), "armed" or "aborted"
    history,            \* the history passed to generateResponse
    gpc,                \* "idle", or "await" while a request is in flight
    \* observation of the call in flight / last finished
    keyIndexAtEntry,    \* currentKeyIndex when generateResponse was entered
    issued,             \* requests issued by this call, in order
    rotations,          \* key rotations done by this call
    lastOutcome,        \* how the last settled request of this call ended
    apiResult,          \* what callGeminiAPI returned last
    failureAlerts,      \* calls of _handleTotalFailure
    calls,              \* calls of callGeminiAPI so far
    \* ---- storage.js, App, MainChat.jsx, Sidebar.jsx ----
    now,                \* the calendar day of new Date()
    lsUsage,            \* localStorage['ryunex_daily_usage'] (NoItem when absent)
    lsChats,            \* localStorage['ryunex_chat_history']: sequence of chats
    nextId,             \* the value Date.now() yields for the next id
    currentChatId,      \* App state (0 for null)
    activeMode,         \* App state
    mainMounted,        \* "no", "yes", or "gone" once unmounted
    mainMessages,       \* MainChat state: messages
    isTyping,           \* MainChat state
    mainNotification,   \* MainChat state: notification (<< >> for null)
    mainDailyUsage,     \* MainChat state: dailyUsage
    abortControllerRef, \* abortControllerRef.current: 0 for null, else a controller
    controllers,        \* the AbortControllers created: their signal's state
    inflight,           \* the handleSendMessage runs awaiting callGeminiAPI
    mainSends,          \* admitted sends so far
    mainClears,         \* a setTimeout(() => setNotification(null)) is pending
    event,              \* observation: the handler that ran last, with its inputs
    \* ---- storage.js over the raw items of window.localStorage ----
    localStorage,       \* key -> the string stored (NoItem when absent)
    lsAvailable,        \* "yes", "full" (setItem throws) or "no" (every access throws)
    \* ---- Chat.jsx: the conversation list ----
    conversations,      \* React state: sequence of [id, messages]
    chatCurrentId,      \* React state currentChatId of Chat.jsx (0 for null)
    sendChatId,         \* currentChatId as captured by the handleSendMessage in flight
    chatNextId,         \* the value Date.now() yields for the next conversation
    lsConversations     \* localStorage['chatHistory']: the list (<< >> when absent)

chatVars == << MODEL_CONFIG, lsModelConfig, lsDailyUsage, today, mounted,
               activeModelIndex, activeKeyIndex, isLoading, notification,
               dailyUsage, messages, entryModelIndex, entryKeyIndex,
               currentModelIdx, currentKeyIdx, updatedMessages, requests,
               cursorWrites, lastResp, sendResult, sends, pendingClears, pc,
               lsChatHistory, fetching >>

geminiVars == << apiKeys, currentKeyIndex, attempts, signal, history, gpc,
                 keyIndexAtEntry, issued, rotations, lastOutcome, apiResult,
                 failureAlerts, calls >>

\* The part of the GeminiManager state that belongs to one call.
geminiCallVars == << attempts, signal, history, gpc, keyIndexAtEntry, issued,
                     rotations, lastOutcome, apiResult, calls >>

mainVars == << now, lsUsage, lsChats, nextId, currentChatId, activeMode,
               mainMounted, mainMessages, isTyping, mainNotification,
               mainDailyUsage, abortControllerRef, controllers, inflight,
               mainSends, mainClears >>

listVars == << conversations, chatCurrentId, sendChatId, chatNextId,
              lsConversations >>

storeVars == << localStorage, lsAvailable, listVars >>

vars == << root, chatVars, geminiVars, mainVars, event, storeVars >>

NoItem == [absent |-> TRUE]

\* The value undefined of a property an object does not have.
Undefined == [type |-> "undefined"]
NoResult == [none |-> TRUE]

(***************************************************************************)
(* Strings as token sequences.                                             *)
(***************************************************************************)
\* String.prototype.includes for a one-word needle.
Includes(str, word) == \E i \in DOMAIN str : str[i] = word

IsSpace(tok) == tok = " "

\* String.prototype.trim: drop leading and trailing whitespace tokens.
RECURSIVE TrimLeft(_)
TrimLeft(str) ==
    IF str = << >> THEN << >>
    ELSE IF IsSpace(Head(str)) THEN TrimLeft(Tail(str)) ELSE str

RECURSIVE TrimRight(_)
TrimRight(str) ==
    IF str = << >> THEN << >>
    ELSE IF IsSpace(str[Len(str)]) THEN TrimRight(SubSeq(str, 1, Len(str) - 1))
    ELSE str

Trim(str) == TrimRight(TrimLeft(str))

\* Faulty variant: nothing is rejected.
SendRejected_Never(text, busy) == FALSE

\* Faulty variant: a send is accepted while another is in flight.
SendRejected_EmptyOnly(text, busy) == Trim(text) = << >>

\* MainChat.jsx line 80 and Chat.jsx line 162: nothing to send, or busy.
SendRejected(text, busy) == Trim(text) = << >> \/ busy

\* What the user can have typed into the input box.
Inputs == { << >>, << " " >>, << "hi" >> }

(***************************************************************************)
(* MODEL_CONFIG and the provider's possible answers.                       *)
(***************************************************************************)
\* A MODEL_CONFIG entry with k credentials; the model id is its position.
ModelEntry(i, k) == [id |-> i, apiKeys |-> [j \in 1..k |-> "key"]]

\* All tables of 1..MaxModels models with 0..MaxKeys credentials each.
Tables ==
    UNION { { [i \in 1..n |-> ModelEntry(i - 1, f[i])] : f \in [1..n -> 0..MaxKeys] }
            : n \in 1..MaxModels }

\* model.apiKeys[idx]: JavaScript yields undefined outside the array.
ApiKeyAt(model, idx) ==
    IF idx + 1 \in DOMAIN model.apiKeys THEN model.apiKeys[idx + 1] ELSE "undefined"

\* Decimal numerals as tokens (template literals print numbers).
Numeral(n) ==
    CASE n = 0 -> "0" [] n = 1 -> "1" [] n = 2 -> "2" [] n = 3 -> "3"
      [] n = 4 -> "4" [] n = 5 -> "5" [] n = 400 -> "400" [] n = 500 -> "500"
      [] OTHER -> "n"

\* model.modelName of the entry at a position of the table.
ModelName(idx) == << "model", Numeral(idx) >>

\* What fetch can do: reject (network), or resolve with a status and a JSON body.
\* error: body.error (<< >> when absent); text: body[0].generated_text.
Responses ==
    { [kind |-> "reject", status |-> 0,   error |-> << "Failed", "to", "fetch" >>, text |-> << >>],
      [kind |-> "http",   status |-> 429, error |-> << >>, text |-> << >>],
      [kind |-> "http",   status |-> 503, error |-> << >>, text |-> << >>],
      [kind |-> "http",   status |-> 500, error |-> << "Model", "is", "Loading" >>, text |-> << >>],
      [kind |-> "http",   status |-> 500, error |-> << >>, text |-> << >>],
      [kind |-> "http",   status |-> 200, error |-> << >>, text |-> << "hello" >>],
      [kind |-> "http",   status |-> 200, error |-> << "oops" >>, text |-> << >>],
      [kind |-> "http",   status |-> 200, error |-> << >>, text |-> << >>] }

(***************************************************************************)
(* Chat.jsx: one iteration of the failover loop, as pure functions.        *)
(***************************************************************************)
\* The try block after fetch settles (lines 206-241): what is thrown, or the
\* botText of a completed attempt.
TryAttempt(resp) ==
    IF resp.kind = "reject"
    THEN [threw |-> TRUE, message |-> resp.error, botText |-> << >>]
    ELSE IF resp.status = 429 \/ resp.status = 503
    THEN [threw |-> TRUE, message |-> << "RateLimit" >>, botText |-> << >>]
    ELSE IF ~(resp.status \in 200..299)
    THEN [threw |-> TRUE,
          message |-> IF resp.error # << >> THEN resp.error
                      ELSE << "HTTP", Numeral(resp.status) >>,
          botText |-> << >>]
    ELSE [threw |-> FALSE, message |-> << >>,
          botText |-> IF resp.text # << >> THEN resp.text
                      ELSE IF resp.error # << >> THEN << "Error:" >> \o resp.error
                      ELSE << "No", "response", "generated." >>]

\* Faulty variant: every thrown error is retried.
IsRetryable_Always(message) == TRUE

\* The catch block's test (line 256).
IsRetryable(message) ==
    message = << "RateLimit" >> \/ Includes(message, "Loading")

\* Lines 200-202: the key index the attempt uses.
ClampKeyIdx(model, keyIdx) ==
    IF keyIdx >= Len(model.apiKeys) THEN 0 ELSE keyIdx

\* Faulty variant: after the last model the failover goes round to the first.
NextPosition_Wrap(m, k) ==
    IF k + 1 >= Len(MODEL_CONFIG[m + 1].apiKeys)
    THEN [modelIdx |-> (m + 1) % Len(MODEL_CONFIG), keyIdx |-> 0]
    ELSE [modelIdx |-> m, keyIdx |-> k + 1]

\* Faulty variant: a retryable failure always moves to the next model.
NextPosition_SkipKeys(m, k) == [modelIdx |-> m + 1, keyIdx |-> 0]

\* Lines 258-268: the position after a retryable failure at (m, k).
NextPosition(m, k) ==
    IF k + 1 >= Len(MODEL_CONFIG[m + 1].apiKeys)
    THEN [modelIdx |-> m + 1, keyIdx |-> 0]
    ELSE [modelIdx |-> m, keyIdx |-> k + 1]

\* Lines 264 and 267: the notice set after a retryable failure at (m, k).
SwitchNotice(m, k, notif) ==
    IF k + 1 >= Len(MODEL_CONFIG[m + 1].apiKeys)
    THEN IF m + 1 < Len(MODEL_CONFIG)
         THEN << "Alert:" >> \o ModelName(m) \o << "limit", "reached,", "switching", "to" >>
              \o ModelName(m + 1)
         ELSE notif
    ELSE << "Alert:", "Key", "limit", "reached", "for" >> \o ModelName(m)
         \o << "switching", "key..." >>

\* Faulty variant: only the model index is compared.
CursorChanged_ModelOnly(m, k, entryM, entryK) == m # entryM

\* Line 246: the attempt succeeded away from the cursor the send started with.
CursorChanged(m, k, entryM, entryK) == m # entryM \/ k # entryK

FallbackText == << "System", "Error:", "All", "models", "and", "keys", "are",
                   "currently", "unavailable." >>

LimitNotice == << "Daily", "limit", "reached" >>

\* Faulty variant: the fallback text is never substituted.
FinalText_NoFallback(success, botText) == botText

\* Lines 277-279: the text of the assistant message.
FinalText(success, botText) ==
    IF ~success /\ botText = << >> THEN FallbackText ELSE botText

ConnectedNotice(m) == << "Success:", "Connected", "to" >> \o ModelName(m)

(***************************************************************************)
(* Chat.jsx: the Chat component.                                           *)
(*                                                                         *)
(* A React state setter takes effect at the next render, which happens     *)
(* before the next event is handled; the handler in flight keeps reading   *)
(* the values its closure captured (entryModelIndex, entryKeyIndex).  An   *)
(* action therefore applies the setters of one synchronous run of the      *)
(* handler together with the effects the resulting render triggers.        *)
(***************************************************************************)
UserMessage(text) == [role |-> "user", content |-> text]
BotMessage(text) == [role |-> "assistant", content |-> text]

\* Lines 128 and 281-285: handleSendMessage writes msgs into the conversation it
\* was started in; the messages on screen are those of the current conversation.
Shown(msgs) ==
    IF pc = "fetch" /\ chatCurrentId # sendChatId THEN messages ELSE msgs

\* Lines 198-222: clamp the key index, read the key, issue the fetch.
ChatIssue(m, k, reqs, msgs) ==
    LET model == MODEL_CONFIG[m + 1]
        kc == ClampKeyIdx(model, k)
    IN  /\ currentModelIdx' = m
        /\ currentKeyIdx' = kc
        /\ requests' = Append(reqs, [modelIdx |-> m, keyIdx |-> kc,
                                      id |-> model.id,
                                      keys |-> Len(model.apiKeys),
                                      apiKey |-> ApiKeyAt(model, kc),
                                      saved |-> lsChatHistory,
                                      usage |-> lsDailyUsage'])
        /\ messages' = Shown(msgs)
        /\ isLoading' = TRUE
        /\ pc' = "fetch"
        /\ sendResult' = NoResult

\* Faulty variant: the end of the send leaves isLoading set.
ChatFinish_StillLoading(m, k, success, botText, reqs, msgs) ==
    /\ currentModelIdx' = m
    /\ currentKeyIdx' = k
    /\ requests' = reqs
    /\ messages' = Shown(Append(msgs, BotMessage(FinalText(success, botText))))
    /\ isLoading' = TRUE
    /\ pc' = "idle"
    /\ sendResult' = [success |-> success, botText |-> FinalText(success, botText)]

\* Lines 277-286: after the loop.
ChatFinish(m, k, success, botText, reqs, msgs) ==
    LET finalText == FinalText(success, botText)
    IN  /\ currentModelIdx' = m
        /\ currentKeyIdx' = k
        /\ requests' = reqs
        /\ messages' = Shown(Append(msgs, BotMessage(finalText)))
        /\ isLoading' = FALSE
        /\ pc' = "idle"
        /\ sendResult' = [success |-> success, botText |-> finalText]

\* Line 197: the loop condition with success = false, at position (m, k).
ChatLoopHead(m, k, reqs, msgs) ==
    IF m < Len(MODEL_CONFIG)
    THEN ChatIssue(m, k, reqs, msgs)
    ELSE ChatFinish(m, k, FALSE, << >>, reqs, msgs)

\* useState initialisers (lines 40-47) and the mount effects (lines 54-120).
ChatMount ==
    /\ ~mounted
    /\ mounted' = TRUE
    /\ activeModelIndex' = IF lsModelConfig # NoItem THEN lsModelConfig.modelIndex ELSE 0
    /\ activeKeyIndex' = IF lsModelConfig # NoItem THEN lsModelConfig.keyIndex ELSE 0
    /\ lsModelConfig' = [modelIndex |-> activeModelIndex', keyIndex |-> activeKeyIndex']
    /\ IF lsDailyUsage # NoItem /\ lsDailyUsage.date = today
       THEN dailyUsage' = lsDailyUsage /\ UNCHANGED lsDailyUsage
       ELSE /\ dailyUsage' = [count |-> 0, date |-> today]
            /\ lsDailyUsage' = dailyUsage'
    /\ messages' = << >>
    \* the effect of lines 106-110 stores the conversation just created
    /\ lsChatHistory' = messages'
    /\ UNCHANGED << MODEL_CONFIG, today, isLoading, notification, entryModelIndex,
                    entryKeyIndex, currentModelIdx, currentKeyIdx, updatedMessages,
                    requests, cursorWrites, lastResp, sendResult, sends,
                    pendingClears, pc, fetching >>

\* handleSendMessage, line 162: nothing to send, or a send is in flight.
ChatSendIgnored(text) ==
    /\ mounted
    /\ SendRejected(text, isLoading)
    /\ UNCHANGED chatVars

\* handleSendMessage, lines 168-171: the daily limit is reached.
ChatSendLimited(text) ==
    /\ mounted
    /\ ~SendRejected(text, isLoading)
    /\ dailyUsage.count >= MAX_DAILY_MESSAGES
    /\ notification' = LimitNotice
    /\ UNCHANGED << MODEL_CONFIG, lsModelConfig, lsDailyUsage, today, mounted,
                    activeModelIndex, activeKeyIndex, isLoading, dailyUsage,
                    messages, entryModelIndex, entryKeyIndex, currentModelIdx,
                    currentKeyIdx, updatedMessages, requests, cursorWrites,
                    lastResp, sendResult, sends, pendingClears, pc,
                    lsChatHistory, fetching >>

\* handleSendMessage, lines 173-222 (or to 286 when the loop body never runs).
\* After mount a current conversation always exists (lines 54-76), so the
\* return of line 165 is not taken.
ChatSendAdmitted(text) ==
    /\ mounted
    /\ ~SendRejected(text, isLoading)
    /\ ~(dailyUsage.count >= MAX_DAILY_MESSAGES)
    /\ sends' = sends + 1
    /\ updatedMessages' = Append(messages, UserMessage(text))
    /\ dailyUsage' = [dailyUsage EXCEPT !.count = @ + 1]
    /\ lsDailyUsage' = dailyUsage'
    /\ notification' = << >>
    /\ entryModelIndex' = activeModelIndex
    /\ entryKeyIndex' = activeKeyIndex
    /\ cursorWrites' = 0
    /\ lastResp' = NoResult
    /\ ChatLoopHead(activeModelIndex, activeKeyIndex, << >>, updatedMessages')
    \* the handler has returned to React: render, then the effect of lines 106-110
    /\ lsChatHistory' = messages'
    /\ fetching' = fetching + (IF pc' = "fetch" THEN 1 ELSE 0)
    /\ UNCHANGED << MODEL_CONFIG, lsModelConfig, today, mounted, activeModelIndex,
                    activeKeyIndex, pendingClears >>

\* The same, for a session of at most MaxSends admitted sends.
ChatSend(text) == sends < MaxSends /\ ChatSendAdmitted(text)

\* Lines 243-251: the attempt at (m, k) completed.
ChatOnSuccess(m, k, botText) ==
    /\ IF CursorChanged(m, k, entryModelIndex, entryKeyIndex)
       THEN /\ activeModelIndex' = m
            /\ activeKeyIndex' = k
            /\ notification' = ConnectedNotice(m)
            /\ pendingClears' = pendingClears + 1
            \* the effect of lines 113-120 runs once after the render
            /\ lsModelConfig' = [modelIndex |-> m, keyIndex |-> k]
            /\ cursorWrites' = cursorWrites + 1
       ELSE UNCHANGED << activeModelIndex, activeKeyIndex, notification,
                         pendingClears, lsModelConfig, cursorWrites >>
    /\ ChatFinish(m, k, TRUE, botText, requests, updatedMessages)

\* Lines 256-268: a retryable failure at (m, k).
ChatOnRetryable(m, k) ==
    LET next == NextPosition(m, k)
    IN  /\ notification' = SwitchNotice(m, k, notification)
        /\ ChatLoopHead(next.modelIdx, next.keyIdx, requests, updatedMessages)
        /\ UNCHANGED << activeModelIndex, activeKeyIndex, pendingClears,
                        lsModelConfig, cursorWrites >>

\* Lines 270-272: any other error.
ChatOnFatal(m, k, message) ==
    /\ ChatFinish(m, k, FALSE, << "Error:" >> \o message, requests, updatedMessages)
    /\ UNCHANGED << activeModelIndex, activeKeyIndex, notification, pendingClears,
                    lsModelConfig, cursorWrites >>

\* The fetch of line 206 settles; the handler runs to its next await or its end.
ChatFetchSettles(resp) ==
    /\ pc = "fetch"
    /\ lastResp' = resp
    /\ UNCHANGED << MODEL_CONFIG, lsDailyUsage, today, mounted, dailyUsage,
                    entryModelIndex, entryKeyIndex, updatedMessages, sends >>
    /\ LET out == TryAttempt(resp)
       IN  IF ~out.threw
           THEN ChatOnSuccess(currentModelIdx, currentKeyIdx, out.botText)
           ELSE IF IsRetryable(out.message)
           THEN ChatOnRetryable(currentModelIdx, currentKeyIdx)
           ELSE ChatOnFatal(currentModelIdx, currentKeyIdx, out.message)
    /\ lsChatHistory' = messages'
    /\ fetching' = (fetching - 1) + (IF pc' = "fetch" THEN 1 ELSE 0)

\* Line 250: setTimeout(() => setNotification(null), 3000) fires.
ChatNotificationTimeout ==
    /\ pendingClears > 0
    /\ pendingClears' = pendingClears - 1
    /\ notification' = << >>
    /\ UNCHANGED << MODEL_CONFIG, lsModelConfig, lsDailyUsage, today, mounted,
                    activeModelIndex, activeKeyIndex, isLoading, dailyUsage,
                    messages, entryModelIndex, entryKeyIndex, currentModelIdx,
                    currentKeyIdx, updatedMessages, requests, cursorWrites,
                    lastResp, sendResult, sends, pc, lsChatHistory, fetching >>

\* The calendar day changes (new Date() of line 80).  Nothing of the component
\* runs: the effect of lines 79-103 has no dependencies and ran at mount.
ChatTick ==
    /\ today < MaxDay
    /\ today' = today + 1
    /\ UNCHANGED << MODEL_CONFIG, lsModelConfig, lsDailyUsage, mounted,
                    activeModelIndex, activeKeyIndex, isLoading, notification,
                    dailyUsage, messages, entryModelIndex, entryKeyIndex,
                    currentModelIdx, currentKeyIdx, updatedMessages, requests,
                    cursorWrites, lastResp, sendResult, sends, pendingClears, pc,
                    lsChatHistory, fetching >>

\* What localStorage can hold for 'activeModelConfig' when the page loads: nothing,
\* or a cursor this program saved, which is a position of the table it was built
\* with (any table within the bounds, not necessarily the present one).
SavedCursors ==
    { NoItem } \cup [modelIndex : 0..(MaxModels - 1), keyIndex : 0..(MaxKeys - 1)]

\* What localStorage can hold for 'dailyUsage' when the page loads: nothing, or
\* today's record with the limit used up.
SavedUsages ==
    { NoItem, [count |-> MAX_DAILY_MESSAGES, date |-> 1] }

ChatInit ==
    /\ MODEL_CONFIG \in Tables
    /\ lsModelConfig \in SavedCursors
    /\ lsDailyUsage \in SavedUsages
    /\ today = 1
    /\ mounted = FALSE
    /\ activeModelIndex = 0
    /\ activeKeyIndex = 0
    /\ isLoading = FALSE
    /\ notification = << >>
    /\ dailyUsage = [count |-> 0, date |-> 1]
    /\ messages = << >>
    /\ entryModelIndex = 0
    /\ entryKeyIndex = 0
    /\ currentModelIdx = 0
    /\ currentKeyIdx = 0
    /\ updatedMessages = << >>
    /\ requests = << >>
    /\ cursorWrites = 0
    /\ lastResp = NoResult
    /\ sendResult = NoResult
    /\ sends = 0
    /\ pendingClears = 0
    /\ pc = "idle"
    /\ lsChatHistory = NoItem
    /\ fetching = 0

(***************************************************************************)
(* api.js: GeminiManager.generateResponse and callGeminiAPI.               *)
(***************************************************************************)
BusyText == << "Server", "is", "busy,", "please", "talk", "to", "owner", "of", "RYUNEX" >>

CancelledText == << "Request", "cancelled" >>

\* MODELS[...] as selected by callGeminiAPI (lines 548-551).
Modes == { "Solance", "Chill", "Student", "Coder" }
ModelFor(mode) == IF mode = "Coder" THEN "gemini-2.5-flash" ELSE "gemini-2.5-flash"

\* What chat.sendMessage / model.generateContent can do: resolve with a text, or
\* reject with an error (name, message).
ProviderOutcomes ==
    { [kind |-> "resolve", name |-> "",      text |-> << "hello" >>],
      [kind |-> "resolve", name |-> "",      text |-> BusyText],
      [kind |-> "reject",  name |-> "Error", text |-> << "429", "Too", "Many", "Requests" >>],
      [kind |-> "reject",  name |-> "Error", text |-> << "503", "Service", "Unavailable" >>],
      [kind |-> "reject",  name |-> "Error", text |-> << "400", "Bad", "Request" >>] }

AbortError == [kind |-> "reject", name |-> "AbortError", text |-> << "Aborted" >>]

\* signal?.aborted
Aborted(sig) == sig = "aborted"

\* Lines 263 and 269: the manual abort check after the request resolved.
AfterResolve(outcome, sig) ==
    IF outcome.kind = "resolve" /\ Aborted(sig) THEN AbortError ELSE outcome

\* Faulty variant: only the error's name is looked at, not the signal.
IsCancellation_NameOnly(error, sig) == error.name = "AbortError"

\* Line 279: the catch block rethrows instead of rotating.
IsCancellation(error, sig) == error.name = "AbortError" \/ Aborted(sig)

\* Faulty variant: the key index is advanced without wrapping.
RotateKey_NoWrap(idx, totalKeys) == idx + 1

\* Faulty variant: the key index is left where it was.
RotateKey_Stay(idx, totalKeys) == idx

\* Line 289.
RotateKey(idx, totalKeys) == (idx + 1) % totalKeys

\* Line 234: the loop condition.
MoreAttempts(n, totalKeys) == n < totalKeys

\* callGeminiAPI, lines 570-579: generateResponse returned text.
ApiReturn(text, modelName) ==
    IF text = BusyText
    THEN [success |-> FALSE, text |-> text, isCancelled |-> FALSE, modelUsed |-> ""]
    ELSE [success |-> TRUE, text |-> text, isCancelled |-> FALSE, modelUsed |-> modelName]

\* Faulty variant: a cancellation is reported as an ordinary failure.
ApiCatch_NotFlagged(error, sig) ==
    [success |-> FALSE, text |-> CancelledText, isCancelled |-> FALSE, modelUsed |-> ""]

\* callGeminiAPI, lines 581-598: generateResponse threw.
ApiCatch(error, sig) ==
    IF error.name = "AbortError" \/ Aborted(sig)
    THEN [success |-> FALSE, text |-> CancelledText, isCancelled |-> TRUE, modelUsed |-> ""]
    ELSE [success |-> FALSE,
          text |-> IF Includes(error.text, "429")
                   THEN << "I'm", "receiving", "too", "many", "requests" >>
                   ELSE << "An", "error", "occurred", "with", "Gemini", "API." >>,
          isCancelled |-> FALSE, modelUsed |-> ""]

\* Lines 235-272: read the current key and issue the request; the signal is not
\* consulted before the request goes out.
GeminiIssue(keyIdx, sig, hist, sent) ==
    /\ issued' = Append(sent, [keyIdx |-> keyIdx,
                                 api |-> IF Len(hist) > 0 THEN "sendMessage"
                                         ELSE "generateContent",
                                 abortedAtIssue |-> Aborted(sig)])
    /\ gpc' = "await"

\* callGeminiAPI entered (lines 543-568) and generateResponse up to its first await.
GeminiCall(mode, sig, hist) ==
    /\ gpc = "idle"
    /\ calls < MaxCalls
    /\ calls' = calls + 1
    /\ signal' = sig
    /\ history' = hist
    /\ attempts' = 0
    /\ keyIndexAtEntry' = currentKeyIndex
    /\ rotations' = 0
    /\ lastOutcome' = NoResult
    /\ apiResult' = NoResult
    /\ GeminiIssue(currentKeyIndex, sig, hist, << >>)
    /\ UNCHANGED << apiKeys, currentKeyIndex, failureAlerts >>

\* The owner of the AbortController aborts while the call is in flight.
GeminiAbort ==
    /\ gpc = "await"
    /\ signal = "armed"
    /\ signal' = "aborted"
    /\ UNCHANGED << apiKeys, currentKeyIndex, attempts, history, gpc, keyIndexAtEntry,
                    issued, rotations, lastOutcome, apiResult, failureAlerts, calls >>

\* The request settles; generateResponse runs to its next await or returns/throws,
\* and callGeminiAPI turns that into its result.
GeminiSettles(mode, outcome) ==
    /\ gpc = "await"
    /\ lastOutcome' = outcome
    /\ LET out == AfterResolve(outcome, signal)
           totalKeys == Len(apiKeys)
       IN  IF out.kind = "resolve"
           THEN \* line 275: return text
                /\ apiResult' = ApiReturn(out.text, ModelFor(mode))
                /\ gpc' = "idle"
                /\ UNCHANGED << currentKeyIndex, attempts, rotations, issued,
                                failureAlerts >>
           ELSE IF IsCancellation(out, signal)
           THEN \* line 280: throw error
                /\ apiResult' = ApiCatch(out, signal)
                /\ gpc' = "idle"
                /\ UNCHANGED << currentKeyIndex, attempts, rotations, issued,
                                failureAlerts >>
           ELSE \* lines 289-290, then the loop condition
                /\ currentKeyIndex' = RotateKey(currentKeyIndex, totalKeys)
                /\ attempts' = attempts + 1
                /\ rotations' = rotations + 1
                /\ IF MoreAttempts(attempts', totalKeys)
                   THEN /\ GeminiIssue(currentKeyIndex', signal, history, issued)
                        /\ UNCHANGED << apiResult, failureAlerts >>
                   ELSE \* lines 295-298
                        /\ failureAlerts' = failureAlerts + 1
                        /\ apiResult' = ApiReturn(BusyText, ModelFor(mode))
                        /\ gpc' = "idle"
                        /\ UNCHANGED issued
    /\ UNCHANGED << apiKeys, signal, history, keyIndexAtEntry, calls >>

\* Histories in the provider's format that a caller can pass.
Histories == { << >>, << [role |-> "user", text |-> << "hi" >>] >> }

\* new GeminiManager(apiKeys, ...) with a non-empty key array (lines 206-219).
GeminiInit ==
    /\ apiKeys \in { [j \in 1..n |-> "key"] : n \in 1..MaxApiKeys }
    /\ currentKeyIndex = 0
    /\ attempts = 0
    /\ signal = "none"
    /\ history = << >>
    /\ gpc = "idle"
    /\ keyIndexAtEntry = 0
    /\ issued = << >>
    /\ rotations = 0
    /\ lastOutcome = NoResult
    /\ apiResult = NoResult
    /\ failureAlerts = 0
    /\ calls = 0

\* The signal a caller passes: none, one not yet aborted, or one already aborted.
Signals == { "none", "armed", "aborted" }

(***************************************************************************)
(* storage.js: the daily usage record.                                     *)
(*                                                                         *)
(* An operation that reads and writes localStorage is a function of the    *)
(* stored item and of the day: it yields what it returns (usage) and the   *)
(* item stored when it returns (stored).  A date string is identified with *)
(* the calendar day it names.                                              *)
(***************************************************************************)
\* Lines 14-17.
getTodayDateString(t) == t

\* Lines 22-24.
isNewDay(lastDateString, t) == lastDateString # getTodayDateString(t)

\* Faulty variant: a stale record is returned as it is.
getDailyUsage_NoReset(stored, t) ==
    IF stored = NoItem
    THEN [usage |-> [count |-> 0, date |-> getTodayDateString(t)], stored |-> stored]
    ELSE [usage |-> stored, stored |-> stored]

\* Lines 29-49.
getDailyUsage(stored, t) ==
    IF stored = NoItem
    THEN [usage |-> [count |-> 0, date |-> getTodayDateString(t)], stored |-> stored]
    ELSE IF isNewDay(stored.date, t)
    THEN LET newUsage == [count |-> 0, date |-> getTodayDateString(t)]
         IN  [usage |-> newUsage, stored |-> newUsage]
    ELSE [usage |-> stored, stored |-> stored]

\* Faulty variant: the stored record is incremented without the read's reset.
incrementDailyUsage_NoRead(stored, t) ==
    LET newUsage == IF stored = NoItem
                    THEN [count |-> 1, date |-> getTodayDateString(t)]
                    ELSE [stored EXCEPT !.count = @ + 1]
    IN  [usage |-> newUsage, stored |-> newUsage]

\* Faulty variant: the incremented record is returned but not stored.
incrementDailyUsage_NotStored(stored, t) ==
    LET usage == getDailyUsage(stored, t).usage
    IN  [usage |-> [usage EXCEPT !.count = @ + 1], stored |-> stored]

\* Lines 54-63.
incrementDailyUsage(stored, t) ==
    LET usage == getDailyUsage(stored, t).usage
        newUsage == [usage EXCEPT !.count = @ + 1]
    IN  [usage |-> newUsage, stored |-> newUsage]

\* Faulty variant: the limit is one message too late.
isDailyLimitReached_OffByOne(stored, t) ==
    getDailyUsage(stored, t).usage.count > MAX_DAILY_MESSAGES

\* Lines 68-71: the value returned; the read's write is getDailyUsage's.
isDailyLimitReached(stored, t) ==
    getDailyUsage(stored, t).usage.count >= MAX_DAILY_MESSAGES

(***************************************************************************)
(* storage.js: the persisted conversation list.                            *)
(***************************************************************************)
\* Array.prototype.find / findIndex on the id: the first match.
ChatIndex(chats, chatId) ==
    IF \E i \in DOMAIN chats : chats[i].id = chatId
    THEN CHOOSE i \in DOMAIN chats :
            /\ chats[i].id = chatId
            /\ \A j \in 1..(i - 1) : chats[j].id # chatId
    ELSE 0

\* Faulty variant: the first conversation of the list, whatever its id.
getChatById_First(chats, chatId) == IF chats = << >> THEN NoItem ELSE chats[1]

\* Lines 186-189: the conversation, or NoItem for undefined.
getChatById(chats, chatId) ==
    IF ChatIndex(chats, chatId) = 0 THEN NoItem ELSE chats[ChatIndex(chats, chatId)]

\* Line 136: the placeholder title.
NewChatTitle(mode) == << "New", "Chat", "-", mode >>

\* String.prototype.startsWith('New Chat').
StartsWithNewChat(title) ==
    Len(title) >= 2 /\ title[1] = "New" /\ title[2] = "Chat"

\* Lines 132-148: the list after createNewChat(mode) made a chat with this id.
createNewChat(chats, mode, id) ==
    << [id |-> id, title |-> NewChatTitle(mode), mode |-> mode, messages |-> << >>] >>
        \o chats

\* Lines 162-166: the title taken from the first user message, if there is one.
TitleFrom(msgs, title) ==
    IF \E i \in DOMAIN msgs : msgs[i].role = "user"
    THEN LET first == CHOOSE i \in DOMAIN msgs :
                         /\ msgs[i].role = "user"
                         /\ \A j \in 1..(i - 1) : msgs[j].role # "user"
             text == msgs[first].text
         IN  SubSeq(text, 1, IF Len(text) < 50 THEN Len(text) ELSE 50)
    ELSE title

\* Faulty variant: nothing is written.
updateChatMessages_NotSaved(chats, chatId, msgs) == chats

\* Lines 153-171.
updateChatMessages(chats, chatId, msgs) ==
    LET chatIndex == ChatIndex(chats, chatId)
    IN  IF chatIndex = 0 THEN chats
        ELSE [chats EXCEPT ![chatIndex] =
                 [@ EXCEPT !.messages = msgs,
                           !.title = IF @ = << >> \/ StartsWithNewChat(@)
                                     THEN TitleFrom(msgs, @) ELSE @]]

\* Lines 176-181.
deleteChat(chats, chatId) ==
    LET keep == { i \in DOMAIN chats : chats[i].id # chatId }
        RECURSIVE Filter(_)
        Filter(i) == IF i > Len(chats) THEN << >>
                     ELSE IF i \in keep THEN << chats[i] >> \o Filter(i + 1)
                     ELSE Filter(i + 1)
    IN  Filter(1)

\* chats.filter(chat => chat.mode === mode), as the first match and the ids.
FirstOfMode(chats, mode) ==
    IF \E i \in DOMAIN chats : chats[i].mode = mode
    THEN chats[CHOOSE i \in DOMAIN chats :
                  /\ chats[i].mode = mode
                  /\ \A j \in 1..(i - 1) : chats[j].mode # mode]
    ELSE NoItem

ModeChatIds(chats, mode) == { chats[i].id : i \in { j \in DOMAIN chats : chats[j].mode = mode } }

(***************************************************************************)
(* storage.js called directly: a caller applies the usage operations to    *)
(* whatever is stored, on any day.                                         *)
(***************************************************************************)
\* The variables of App that the storage operations leave alone.
appVars == << lsChats, nextId, currentChatId, activeMode, mainMounted,
              mainMessages, isTyping, mainNotification, mainDailyUsage,
              abortControllerRef, controllers, inflight, mainSends, mainClears >>

CallGetDailyUsage ==
    /\ lsUsage' = getDailyUsage(lsUsage, now).stored
    /\ event' = [type |-> "read", stored |-> lsUsage, at |-> now,
                 usage |-> getDailyUsage(lsUsage, now).usage]
    /\ UNCHANGED << now, appVars >>

CallIncrementDailyUsage ==
    /\ lsUsage # NoItem => lsUsage.count < MaxUsageCount
    /\ lsUsage' = incrementDailyUsage(lsUsage, now).stored
    /\ event' = [type |-> "increment", stored |-> lsUsage, at |-> now,
                 usage |-> incrementDailyUsage(lsUsage, now).usage]
    /\ UNCHANGED << now, appVars >>

CallIsDailyLimitReached ==
    /\ lsUsage' = getDailyUsage(lsUsage, now).stored
    /\ event' = [type |-> "limit", stored |-> lsUsage, at |-> now,
                 reached |-> isDailyLimitReached(lsUsage, now)]
    /\ UNCHANGED << now, appVars >>

\* Midnight passes.
StorageTick ==
    /\ now < MaxDay
    /\ now' = now + 1
    /\ event' = [type |-> "other"]
    /\ UNCHANGED << lsUsage, appVars >>

\* Records this program can have written: any count, dated today or earlier.
StorageInit ==
    /\ now = 1
    /\ lsUsage \in { NoItem } \cup
                   [count : { 0, MAX_DAILY_MESSAGES - 1, MAX_DAILY_MESSAGES },
                    date : 0..1]
    /\ lsChats = << >>
    /\ nextId = 2
    /\ currentChatId = 0
    /\ activeMode = "Solance"
    /\ mainMounted = "no"
    /\ mainMessages = << >>
    /\ isTyping = FALSE
    /\ mainNotification = << >>
    /\ mainDailyUsage = [count |-> 0, date |-> 1]
    /\ abortControllerRef = 0
    /\ controllers = << >>
    /\ inflight = << >>
    /\ mainSends = 0
    /\ mainClears = FALSE
    /\ event = [type |-> "none"]

(***************************************************************************)
(* App, MainChat.jsx and Sidebar.jsx.                                      *)
(*                                                                         *)
(* As for Chat.jsx, an action is one synchronous run of a handler together *)
(* with the render it causes and the effects of that render.  Rendering    *)
(* MainChat calls isDailyLimitReached() (line 176), whose read rewrites a  *)
(* stale usage record.  Message ids and timestamps are left out.           *)
(***************************************************************************)
\* Lines 95-100, 131-137 and 148-154: the three kinds of message.
MainUserMessage(text) == [role |-> "user", text |-> text]
AiMessage(text, modelUsed) == [role |-> "ai", text |-> text, modelUsed |-> modelUsed]
ErrorMessage(text) ==
    [role |-> "ai",
     text |-> << "Sorry,", "I", "encountered", "an", "error:" >> \o text
              \o << ".", "Please", "try", "again." >>,
     isError |-> TRUE]

MainLimitNotice == << "Daily", "limit", "reached", "(25", "messages)." >>

\* The item under 'ryunex_daily_usage' after MainChat rendered.
Rendered(stored, t) == getDailyUsage(stored, t).stored

\* The effect of lines 24-41 for a chat id (0 for null), until it settles: the
\* list, the current id and the messages shown afterwards.
LoadChat(chats, chatId, mode, id) ==
    LET chat == IF chatId = 0 THEN NoItem ELSE getChatById(chats, chatId)
    IN  IF chat # NoItem /\ chat.mode = mode
        THEN [chats |-> chats, chatId |-> chatId, messages |-> chat.messages,
              nextId |-> id]
        ELSE [chats |-> createNewChat(chats, mode, id), chatId |-> id,
              messages |-> << >>, nextId |-> id + 1]

\* First render of App: the effect of lines 24-41 creates a chat, the effects
\* of App (lines 362-403) select the first chat of the mode, and the effects
\* of lines 24-41 and 44-56 load it and the usage.
MainMount ==
    /\ mainMounted = "no"
    /\ mainMounted' = "yes"
    /\ LET created == LoadChat(lsChats, 0, activeMode, nextId)
           modeChat == FirstOfMode(created.chats, activeMode)
           loaded == LoadChat(created.chats, modeChat.id, activeMode, created.nextId)
       IN  /\ lsChats' = loaded.chats
           /\ currentChatId' = loaded.chatId
           /\ mainMessages' = loaded.messages
           /\ nextId' = loaded.nextId
    /\ mainDailyUsage' = getDailyUsage(lsUsage, now).usage
    /\ lsUsage' = getDailyUsage(lsUsage, now).stored
    /\ event' = [type |-> "other"]
    /\ UNCHANGED << now, activeMode, isTyping, mainNotification, abortControllerRef,
                    controllers, inflight, mainSends, mainClears,
                    apiKeys, currentKeyIndex, failureAlerts >>

\* Lines 71-77: the cleanup when MainChat is unmounted.
MainUnmount ==
    /\ mainMounted = "yes"
    /\ mainMounted' = "gone"
    /\ controllers' = IF abortControllerRef # 0
                      THEN [controllers EXCEPT ![abortControllerRef] = "aborted"]
                      ELSE controllers
    /\ event' = [type |-> "other"]
    /\ UNCHANGED << now, lsUsage, lsChats, nextId, currentChatId, activeMode,
                    mainMessages, isTyping, mainNotification, mainDailyUsage,
                    abortControllerRef, inflight, mainSends, mainClears,
                    apiKeys, currentKeyIndex, failureAlerts >>

\* Midnight passes.
Tick ==
    /\ now < MaxDay
    /\ now' = now + 1
    /\ event' = [type |-> "other"]
    /\ UNCHANGED << lsUsage, lsChats, nextId, currentChatId, activeMode, mainMounted,
                    mainMessages, isTyping, mainNotification, mainDailyUsage,
                    abortControllerRef, controllers, inflight, mainSends, mainClears,
                    apiKeys, currentKeyIndex, failureAlerts >>

\* Lines 45-53: the interval calls getDailyUsage and stores what it returns.
MainUsagePoll ==
    /\ mainMounted = "yes"
    /\ mainDailyUsage' = getDailyUsage(lsUsage, now).usage
    /\ lsUsage' = getDailyUsage(lsUsage, now).stored
    /\ event' = [type |-> "read", stored |-> lsUsage, at |-> now,
                 usage |-> mainDailyUsage']
    /\ UNCHANGED << now, lsChats, nextId, currentChatId, activeMode, mainMounted,
                    mainMessages, isTyping, mainNotification, abortControllerRef,
                    controllers, inflight, mainSends, mainClears,
                    apiKeys, currentKeyIndex, failureAlerts >>

\* Lines 85 and 164: a setTimeout(() => setNotification(null), 5000) fires; others
\* may still be pending.
MainNotificationTimeout ==
    /\ mainClears
    /\ mainClears' \in BOOLEAN
    /\ mainNotification' = << >>
    /\ lsUsage' = IF mainMounted = "yes" THEN Rendered(lsUsage, now) ELSE lsUsage
    /\ event' = [type |-> "other"]
    /\ UNCHANGED << now, lsChats, nextId, currentChatId, activeMode, mainMounted,
                    mainMessages, isTyping, mainDailyUsage, abortControllerRef,
                    controllers, inflight, mainSends,
                    apiKeys, currentKeyIndex, failureAlerts >>

\* Sidebar.jsx lines 37-43: handleNewChat.
SidebarNewChat ==
    /\ mainMounted = "yes"
    /\ nextId <= MaxChatId
    /\ lsChats' = createNewChat(lsChats, activeMode, nextId)
    /\ nextId' = nextId + 1
    /\ currentChatId' = nextId
    /\ mainMessages' = LoadChat(lsChats', nextId, activeMode, nextId').messages
    /\ lsUsage' = Rendered(lsUsage, now)
    /\ event' = [type |-> "other"]
    /\ UNCHANGED << now, activeMode, mainMounted, isTyping, mainNotification,
                    mainDailyUsage, abortControllerRef, controllers, inflight,
                    mainSends, mainClears, apiKeys, currentKeyIndex, failureAlerts >>

\* Sidebar.jsx lines 45-49: handleChatClick on a chat of the list shown.
SidebarChatClick(chatId) ==
    /\ mainMounted = "yes"
    /\ chatId \in ModeChatIds(lsChats, activeMode)
    /\ chatId # currentChatId
    /\ currentChatId' = chatId
    /\ mainMessages' = LoadChat(lsChats, chatId, activeMode, nextId).messages
    /\ lsUsage' = Rendered(lsUsage, now)
    /\ event' = [type |-> "other"]
    /\ UNCHANGED << now, lsChats, nextId, activeMode, mainMounted, isTyping,
                    mainNotification, mainDailyUsage, abortControllerRef, controllers,
                    inflight, mainSends, mainClears,
                    apiKeys, currentKeyIndex, failureAlerts >>

\* The conversation App's mode effect (lines 392-403) makes current: the first
\* stored one of the mode, or a new one.
SelectForMode(chats, mode, id) ==
    IF FirstOfMode(chats, mode) # NoItem
    THEN [chats |-> chats, chatId |-> FirstOfMode(chats, mode).id, nextId |-> id]
    ELSE [chats |-> createNewChat(chats, mode, id), chatId |-> id, nextId |-> id + 1]

\* Sidebar.jsx lines 92-102: a mode item is clicked, setActiveMode(mode).  In
\* the render that follows the effect of MainChat (lines 24-41) runs first,
\* with the conversation that was current, then the mode effect of App (lines
\* 392-403); the current id App sets is loaded by the next render.
SidebarSetMode(mode) ==
    /\ mainMounted = "yes"
    /\ mode # activeMode
    /\ activeMode' = mode
    /\ LET created == LoadChat(lsChats, currentChatId, mode, nextId)
           selected == SelectForMode(created.chats, mode, created.nextId)
           loaded == LoadChat(selected.chats, selected.chatId, mode, selected.nextId)
       IN  /\ loaded.nextId <= MaxChatId + 1
           /\ lsChats' = loaded.chats
           /\ currentChatId' = loaded.chatId
           /\ mainMessages' = loaded.messages
           /\ nextId' = loaded.nextId
    /\ lsUsage' = Rendered(lsUsage, now)
    /\ event' = [type |-> "mode", mode |-> mode]
    /\ UNCHANGED << now, mainMounted, isTyping, mainNotification, mainDailyUsage,
                    abortControllerRef, controllers, inflight, mainSends, mainClears,
                    apiKeys, currentKeyIndex, failureAlerts >>

\* Sidebar.jsx lines 51-65: handleDeleteChat on a chat of the list shown.
SidebarDeleteChat(chatId) ==
    /\ mainMounted = "yes"
    /\ chatId \in ModeChatIds(lsChats, activeMode)
    /\ LET updatedChats == deleteChat(lsChats, chatId)
       IN  IF chatId # currentChatId
           THEN \* only the sidebar renders again
                /\ lsChats' = updatedChats
                /\ UNCHANGED << nextId, currentChatId, mainMessages, lsUsage >>
           ELSE IF ModeChatIds(updatedChats, activeMode) # { }
           THEN LET first == FirstOfMode(updatedChats, activeMode)
                IN  /\ lsChats' = updatedChats
                    /\ currentChatId' = first.id
                    /\ mainMessages' =
                          LoadChat(updatedChats, first.id, activeMode, nextId).messages
                    /\ lsUsage' = Rendered(lsUsage, now)
                    /\ UNCHANGED nextId
           ELSE \* handleNewChat
                /\ nextId <= MaxChatId
                /\ lsChats' = createNewChat(updatedChats, activeMode, nextId)
                /\ nextId' = nextId + 1
                /\ currentChatId' = nextId
                /\ mainMessages' = << >>
                /\ lsUsage' = Rendered(lsUsage, now)
    /\ event' = [type |-> "other"]
    /\ UNCHANGED << now, activeMode, mainMounted, isTyping, mainNotification,
                    mainDailyUsage, abortControllerRef, controllers, inflight,
                    mainSends, mainClears, apiKeys, currentKeyIndex, failureAlerts >>

\* handleSendMessage, line 80: nothing to send, or a send is in flight.
MainSendIgnored(text) ==
    /\ mainMounted = "yes"
    /\ SendRejected(text, isTyping)
    /\ event' = [type |-> "send", text |-> text]
    /\ UNCHANGED << mainVars, apiKeys, currentKeyIndex, failureAlerts >>

\* Faulty variant: the rejection at the daily limit sets no notice.
MainSendLimited_Silent(text) ==
    /\ mainMounted = "yes"
    /\ ~SendRejected(text, isTyping)
    /\ isDailyLimitReached(lsUsage, now)
    /\ lsUsage' = Rendered(getDailyUsage(lsUsage, now).stored, now)
    /\ event' = [type |-> "send", text |-> text]
    /\ UNCHANGED << now, lsChats, nextId, currentChatId, activeMode, mainMounted,
                    mainMessages, isTyping, mainDailyUsage, abortControllerRef,
                    controllers, inflight, mainSends, mainNotification, mainClears,
                    apiKeys, currentKeyIndex, failureAlerts >>

\* handleSendMessage, lines 83-87: the daily limit is reached.
MainSendLimited(text) ==
    /\ mainMounted = "yes"
    /\ ~SendRejected(text, isTyping)
    /\ isDailyLimitReached(lsUsage, now)
    /\ mainNotification' = MainLimitNotice
    /\ mainClears' = TRUE
    /\ lsUsage' = Rendered(getDailyUsage(lsUsage, now).stored, now)
    /\ event' = [type |-> "send", text |-> text]
    /\ UNCHANGED << now, lsChats, nextId, currentChatId, activeMode, mainMounted,
                    mainMessages, isTyping, mainDailyUsage, abortControllerRef,
                    controllers, inflight, mainSends,
                    apiKeys, currentKeyIndex, failureAlerts >>

\* The conversion of lines 555-558 with every message given the role 'user'.
ToGeminiHistory_AllUser(conversationHistory) ==
    [i \in DOMAIN conversationHistory |->
        [role |-> "user",
         parts |-> << [text |-> conversationHistory[i].text] >>]]

\* callGeminiAPI, lines 553-558: the conversation history in the provider's
\* format.  msg.text || msg.content is msg.content, a property no message
\* has, when the text is the empty string.
ToGeminiHistory(conversationHistory) ==
    [i \in DOMAIN conversationHistory |->
        [role |-> IF conversationHistory[i].role = "ai" THEN "model" ELSE "user",
         parts |-> << [text |-> IF conversationHistory[i].text # << >>
                                THEN conversationHistory[i].text
                                ELSE Undefined] >>]]

\* A position of a sequence removed.
RemoveAt(seq, i) == SubSeq(seq, 1, i - 1) \o SubSeq(seq, i + 1, Len(seq))

\* handleSendMessage, lines 90-123, into callGeminiAPI and generateResponse up to
\* the first request (api.js lines 543-568 and 229-272).
MainSend(text) ==
    /\ mainMounted = "yes"
    /\ ~SendRejected(text, isTyping)
    /\ ~isDailyLimitReached(lsUsage, now)
    /\ mainSends' = mainSends + 1
    /\ LET afterCheck == getDailyUsage(lsUsage, now).stored
           ctl == Len(controllers) + 1
           updatedMsgs == Append(mainMessages, MainUserMessage(Trim(text)))
           saved == IF currentChatId # 0
                    THEN updateChatMessages(lsChats, currentChatId, updatedMsgs)
                    ELSE lsChats
           newUsage == incrementDailyUsage(afterCheck, now)
       IN  /\ controllers' =
                 Append(IF abortControllerRef # 0
                        THEN [controllers EXCEPT ![abortControllerRef] = "aborted"]
                        ELSE controllers, "armed")
           /\ abortControllerRef' = ctl
           /\ mainMessages' = updatedMsgs
           /\ lsChats' = saved
           /\ lsUsage' = newUsage.stored
           /\ mainDailyUsage' = newUsage.usage
           /\ inflight' = Append(inflight,
                 [ctl |-> ctl, chatId |-> currentChatId, mode |-> activeMode,
                  prompt |-> Trim(text), updatedMessages |-> updatedMsgs,
                  conversationHistory |-> SubSeq(updatedMsgs, 1, Len(updatedMsgs) - 1),
                  history |-> ToGeminiHistory(
                                  SubSeq(updatedMsgs, 1, Len(updatedMsgs) - 1)),
                  api |-> IF Len(updatedMsgs) - 1 > 0 THEN "sendMessage"
                          ELSE "generateContent",
                  attempts |-> 0, keys |-> << currentKeyIndex >>,
                  chatsAtIssue |-> saved, usageAtIssue |-> newUsage.stored,
                  usageAtEntry |-> lsUsage, day |-> now])
    /\ isTyping' = TRUE
    /\ mainNotification' = << >>
    /\ event' = [type |-> "send", text |-> text]
    /\ UNCHANGED << now, nextId, currentChatId, activeMode, mainMounted, mainClears,
                    apiKeys, currentKeyIndex, failureAlerts >>

\* Lines 125-165: callGeminiAPI returned result to the run at position i.
MainResult(i, result) ==
    LET run == inflight[i]
        answer == IF result.success THEN AiMessage(result.text, result.modelUsed)
                  ELSE ErrorMessage(result.text)
        finalMessages == Append(run.updatedMessages, answer)
        shown == mainMounted = "yes"
    IN  /\ inflight' = RemoveAt(inflight, i)
        /\ abortControllerRef' = 0
        /\ isTyping' = IF shown THEN FALSE ELSE isTyping
        /\ IF result.isCancelled
           THEN UNCHANGED << mainMessages, lsChats, mainNotification, mainClears >>
           ELSE /\ mainMessages' = IF shown THEN finalMessages ELSE mainMessages
                /\ lsChats' = IF run.chatId # 0
                              THEN updateChatMessages(lsChats, run.chatId, finalMessages)
                              ELSE lsChats
                /\ IF result.success
                   THEN UNCHANGED << mainNotification, mainClears >>
                   ELSE /\ mainNotification' = IF shown THEN result.text
                                               ELSE mainNotification
                        /\ mainClears' = TRUE
        /\ lsUsage' = IF shown THEN Rendered(lsUsage, now) ELSE lsUsage
        /\ event' = [type |-> "result", run |-> run, result |-> result,
                     chatsBefore |-> lsChats]

\* The request of the run at position i settles: generateResponse goes on to its
\* next request (api.js lines 277-291) or ends, and then callGeminiAPI returns.
MainSettles(i, outcome) ==
    /\ i \in DOMAIN inflight
    /\ LET run == inflight[i]
           sig == controllers[run.ctl]
           out == AfterResolve(outcome, sig)
           totalKeys == Len(apiKeys)
       IN  IF out.kind = "resolve"
           THEN /\ MainResult(i, ApiReturn(out.text, ModelFor(run.mode)))
                /\ UNCHANGED << currentKeyIndex, failureAlerts >>
           ELSE IF IsCancellation(out, sig)
           THEN /\ MainResult(i, ApiCatch(out, sig))
                /\ UNCHANGED << currentKeyIndex, failureAlerts >>
           ELSE /\ currentKeyIndex' = RotateKey(currentKeyIndex, totalKeys)
                /\ IF MoreAttempts(run.attempts + 1, totalKeys)
                   THEN /\ inflight' = [inflight EXCEPT
                                           ![i].attempts = @ + 1,
                                           ![i].keys = Append(@, currentKeyIndex')]
                        /\ event' = [type |-> "other"]
                        /\ UNCHANGED << lsUsage, lsChats, mainMessages, isTyping,
                                        mainNotification, abortControllerRef,
                                        mainClears, failureAlerts >>
                   ELSE /\ failureAlerts' = failureAlerts + 1
                        /\ MainResult(i, ApiReturn(BusyText, ModelFor(run.mode)))
    /\ UNCHANGED << now, nextId, currentChatId, activeMode, mainMounted,
                    mainDailyUsage, controllers, mainSends, apiKeys >>

\* What localStorage can hold for 'ryunex_daily_usage' when the page loads:
\* nothing, or a record this program wrote on day 0 or day 1.
SavedMainUsages ==
    { NoItem,
      [count |-> MAX_DAILY_MESSAGES - 1, date |-> 1],
      [count |-> MAX_DAILY_MESSAGES, date |-> 1],
      [count |-> MAX_DAILY_MESSAGES, date |-> 0] }

\* What it can hold for 'ryunex_chat_history': nothing, or one earlier chat.
SavedChats ==
    { << >>,
      << [id |-> 1, title |-> << "hi" >>, mode |-> "Solance",
          messages |-> << MainUserMessage(<< "hi" >>),
                          AiMessage(<< "hello" >>, "gemini-2.5-flash") >>] >> }

\* ... or one earlier chat of another mode than the one App starts in.
SavedModeChats ==
    { << >>,
      << [id |-> 1, title |-> << "hi" >>, mode |-> "Coder",
          messages |-> << MainUserMessage(<< "hi" >>),
                          AiMessage(<< "hello" >>, "gemini-2.5-flash") >>] >> }

\* App before its first render, whatever the conversation list holds.
MainStart ==
    /\ now = 1
    /\ lsUsage \in SavedMainUsages
    /\ nextId = 2
    /\ currentChatId = 0
    /\ activeMode = "Solance"
    /\ mainMounted = "no"
    /\ mainMessages = << >>
    /\ isTyping = FALSE
    /\ mainNotification = << >>
    /\ mainDailyUsage = getDailyUsage(lsUsage, now).usage
    /\ abortControllerRef = 0
    /\ controllers = << >>
    /\ inflight = << >>
    /\ mainSends = 0
    /\ mainClears = FALSE
    /\ event = [type |-> "none"]

MainInit == MainStart /\ lsChats \in SavedChats

(***************************************************************************)
(* storage.js over the strings of window.localStorage.  A stored string is *)
(* a text that JSON.parse rejects, or the JSON text of a value; JSON.parse *)
(* is applied to it as the code applies it, and a method called on a value *)
(* that has no such method throws a TypeError.  The current-chat key holds *)
(* the decimal text of an id.                                              *)
(***************************************************************************)
\* Lines 3-7.
STORAGE_KEYS ==
    [CHAT_HISTORY |-> "ryunex_chat_history",
     DAILY_USAGE |-> "ryunex_daily_usage",
     CURRENT_CHAT_ID |-> "ryunex_current_chat_id"]

\* The values of JavaScript met here, besides records and sequences.
JsNull == [type |-> "null"]
JsObject == [type |-> "object"]          \* {}: an object with no property
JsArray(elems) == [type |-> "array", elems |-> elems]
JsRecord(fields) == [type |-> "record", fields |-> fields]

\* A stored string: not JSON, or the JSON text of a value.
NotJson == [valid |-> FALSE]
JsonText(value) == [valid |-> TRUE, value |-> value]

\* JSON.stringify(chats) for an array of chats.  Every property of a chat and of
\* a message is a string, a boolean, an integer below 2^53 or an array of such
\* objects: the text denotes the same value.
StringifyChats(chats) == JsonText(JsArray(chats))

\* String(chatId): the decimal text of the id.
StringOf(id) == [digits |-> id]

\* localStorage.getItem and setItem: the access can throw.
GetItemThrows(avail) == avail = "no"
SetItemThrows(avail) == avail # "yes"
SetItem(ls, avail, key, text) ==
    IF SetItemThrows(avail) THEN ls ELSE [ls EXCEPT ![key] = text]

\* An operation ended: whether it threw, what it returned, what is stored.
Returned(value, ls) == [threw |-> FALSE, value |-> value, ls |-> ls]
Threw(ls) == [threw |-> TRUE, value |-> Undefined, ls |-> ls]

\* Faulty variant: the stored list is returned although the access threw.
getChatHistory_NoCatch(ls, avail) ==
    LET stored == ls[STORAGE_KEYS.CHAT_HISTORY]
    IN  IF stored = NoItem THEN JsArray(<< >>)
        ELSE IF ~stored.valid THEN JsArray(<< >>)
        ELSE stored.value

\* Lines 84-94: whatever JSON.parse yields, or [] from the catch block.
getChatHistory(ls, avail) ==
    LET stored == ls[STORAGE_KEYS.CHAT_HISTORY]
    IN  IF GetItemThrows(avail) THEN JsArray(<< >>)
        ELSE IF stored = NoItem THEN JsArray(<< >>)
        ELSE IF ~stored.valid THEN JsArray(<< >>)
        ELSE stored.value

\* Lines 99-105: the store after saveChatHistory(chats).
saveChatHistory(ls, avail, chats) ==
    SetItem(ls, avail, STORAGE_KEYS.CHAT_HISTORY, StringifyChats(chats))

\* Lines 110-116: the string stored, or NoItem for null.
getCurrentChatId(ls, avail) ==
    IF GetItemThrows(avail) THEN NoItem ELSE ls[STORAGE_KEYS.CURRENT_CHAT_ID]

\* Lines 121-127.
saveCurrentChatId(ls, avail, chatId) ==
    SetItem(ls, avail, STORAGE_KEYS.CURRENT_CHAT_ID, StringOf(chatId))

\* Array.prototype methods exist on arrays only.
IsArray(value) == value.type = "array"

\* Lines 132-148 on the stored strings: chats.unshift(chat).
StoredCreateNewChat(ls, avail, mode, id) ==
    LET chats == getChatHistory(ls, avail)
    IN  IF ~IsArray(chats) THEN Threw(ls)
        ELSE LET list == createNewChat(chats.elems, mode, id)
                 saved == saveChatHistory(ls, avail, list)
             IN  Returned(list[1], saveCurrentChatId(saved, avail, id))

\* Lines 153-171 on the stored strings: chats.findIndex(...).
StoredUpdateChatMessages(ls, avail, chatId, msgs) ==
    LET chats == getChatHistory(ls, avail)
    IN  IF ~IsArray(chats) THEN Threw(ls)
        ELSE IF ChatIndex(chats.elems, chatId) = 0 THEN Returned(Undefined, ls)
        ELSE Returned(Undefined,
                 saveChatHistory(ls, avail,
                                 updateChatMessages(chats.elems, chatId, msgs)))

\* Lines 176-181 on the stored strings: chats.filter(...).
StoredDeleteChat(ls, avail, chatId) ==
    LET chats == getChatHistory(ls, avail)
    IN  IF ~IsArray(chats) THEN Threw(ls)
        ELSE LET filtered == deleteChat(chats.elems, chatId)
             IN  Returned(JsArray(filtered), saveChatHistory(ls, avail, filtered))

\* Lines 186-189 on the stored strings: chats.find(...).
StoredGetChatById(ls, avail, chatId) ==
    LET chats == getChatHistory(ls, avail)
    IN  IF ~IsArray(chats) THEN Threw(ls)
        ELSE IF getChatById(chats.elems, chatId) = NoItem THEN Returned(Undefined, ls)
        ELSE Returned(getChatById(chats.elems, chatId), ls)

\* Lines 29-49 on the stored strings.  Reading a property of null throws inside
\* the try block; a value without a date is a record of another day.
StoredGetDailyUsage(ls, avail, t) ==
    LET stored == ls[STORAGE_KEYS.DAILY_USAGE]
        fresh == [count |-> 0, date |-> getTodayDateString(t)]
    IN  IF GetItemThrows(avail) THEN Returned(fresh, ls)
        ELSE IF stored = NoItem THEN Returned(fresh, ls)
        ELSE IF ~stored.valid THEN Returned(fresh, ls)
        ELSE IF stored.value = JsNull THEN Returned(fresh, ls)
        ELSE IF stored.value.type # "record"
        THEN Returned(fresh,
                      SetItem(ls, avail, STORAGE_KEYS.DAILY_USAGE,
                              JsonText(JsRecord(fresh))))
        ELSE LET read == getDailyUsage(stored.value.fields, t)
             IN  IF read.stored = stored.value.fields THEN Returned(read.usage, ls)
                 ELSE Returned(read.usage,
                               SetItem(ls, avail, STORAGE_KEYS.DAILY_USAGE,
                                       JsonText(JsRecord(read.stored))))

\* Lines 54-63 on the stored strings: the catch block returns a count of 0.
StoredIncrementDailyUsage(ls, avail, t) ==
    LET read == StoredGetDailyUsage(ls, avail, t)
        newUsage == [read.value EXCEPT !.count = @ + 1]
    IN  IF SetItemThrows(avail)
        THEN Returned([count |-> 0, date |-> getTodayDateString(t)], read.ls)
        ELSE Returned(newUsage,
                      SetItem(read.ls, avail, STORAGE_KEYS.DAILY_USAGE,
                              JsonText(JsRecord(newUsage))))

(***************************************************************************)
(* storage.js called directly on the stored strings, one operation at a    *)
(* time, whatever is stored and whether or not the storage can be used.    *)
(***************************************************************************)
\* The messages a caller appends: of either role.
LongText == [i \in 1..(50 + 1) |-> "x"]
StoreMessages ==
    { MainUserMessage(<< "hi" >>), AiMessage(<< "hello" >>, "gemini-2.5-flash") }

\* The message lists a caller passes to updateChatMessages.
StoreMessageLists ==
    { << >>,
      << MainUserMessage(<< "New", "Chat", "idea" >>) >>,
      << MainUserMessage(LongText), MainUserMessage(<< "hi" >>) >> }

StoreModes == { "Coder" }

\* The ids of the chats stored, when an array is stored.
StoredIds(ls, avail) ==
    LET chats == getChatHistory(ls, avail)
    IN  IF IsArray(chats) THEN { chats.elems[i].id : i \in DOMAIN chats.elems }
        ELSE { }

\* The number of messages in a list of chats.
RECURSIVE TotalMessages(_)
TotalMessages(chats) ==
    IF chats = << >> THEN 0
    ELSE Len(Head(chats).messages) + TotalMessages(Tail(chats))

\* The browser's quota: the list fits while it holds MaxMessages messages.
Fits(ls) ==
    LET chats == getChatHistory(ls, "yes")
    IN  IsArray(chats) => TotalMessages(chats.elems) <= MaxMessages

\* What an operation did: its name and arguments, and the way it ended.
StoreEvent(op, args, out) ==
    [type |-> "store", op |-> op, args |-> args, threw |-> out.threw,
     value |-> out.value]

\* The operation ran: what it left in the store, and what it did.
Ran(op, args, out) ==
    /\ localStorage' = out.ls
    /\ event' = StoreEvent(op, args, out)
    /\ UNCHANGED << lsAvailable, mainVars, listVars >>

CallStoredGetDailyUsage ==
    Ran("getDailyUsage", << >>, StoredGetDailyUsage(localStorage, lsAvailable, now))

CallStoredIncrementDailyUsage ==
    /\ StoredGetDailyUsage(localStorage, lsAvailable, now).value.count < MaxUsageCount
    /\ Ran("incrementDailyUsage", << >>,
           StoredIncrementDailyUsage(localStorage, lsAvailable, now))

CallGetChatHistory ==
    Ran("getChatHistory", << >>,
        Returned(getChatHistory(localStorage, lsAvailable), localStorage))

CallSaveChatHistory ==
    /\ IsArray(getChatHistory(localStorage, lsAvailable))
    /\ Ran("saveChatHistory", << >>,
           Returned(Undefined,
                    saveChatHistory(localStorage, lsAvailable,
                                    getChatHistory(localStorage, lsAvailable).elems)))

CallGetCurrentChatId ==
    Ran("getCurrentChatId", << >>,
        Returned(getCurrentChatId(localStorage, lsAvailable), localStorage))

CallSaveCurrentChatId(chatId) ==
    Ran("saveCurrentChatId", << chatId >>,
        Returned(Undefined, saveCurrentChatId(localStorage, lsAvailable, chatId)))

\* Date.now() is later than the id of every chat stored.
CallCreateNewChat(mode) ==
    LET ids == StoredIds(localStorage, lsAvailable)
        id == IF ids = { } THEN 1 ELSE 1 + CHOOSE i \in ids : \A j \in ids : j <= i
    IN  /\ id <= MaxStoreChats
        /\ Ran("createNewChat", << mode, id >>,
               StoredCreateNewChat(localStorage, lsAvailable, mode, id))

CallUpdateChatMessages(chatId, msgs) ==
    /\ Fits(StoredUpdateChatMessages(localStorage, lsAvailable, chatId, msgs).ls)
    /\ Ran("updateChatMessages", << chatId, msgs >>,
           StoredUpdateChatMessages(localStorage, lsAvailable, chatId, msgs))

CallDeleteChat(chatId) ==
    Ran("deleteChat", << chatId >>, StoredDeleteChat(localStorage, lsAvailable, chatId))

CallGetChatById(chatId) ==
    Ran("getChatById", << chatId >>,
        StoredGetChatById(localStorage, lsAvailable, chatId))

\* A caller appends a message to the conversation it loaded, persists the list
\* and loads the conversation again (MainChat.jsx lines 102-111, then 26-28).
AppendPersistReload(chatId, message) ==
    LET loaded == StoredGetChatById(localStorage, lsAvailable, chatId)
        msgs == Append(loaded.value.messages, message)
        updated == StoredUpdateChatMessages(localStorage, lsAvailable, chatId, msgs)
        reloaded == StoredGetChatById(updated.ls, lsAvailable, chatId)
    IN  /\ ~loaded.threw
        /\ loaded.value # Undefined
        /\ Fits(updated.ls)
        /\ Ran("append", << chatId, message >>, reloaded)

\* The storage all along: usable, its quota used up, or switched off.
Availabilities == { "yes", "full", "no" }

\* Strings that can be found under the conversation-list key: none, one that is
\* not JSON, JSON of another shape, or a list this program wrote.
ChatHistoryItems ==
    { NoItem, NotJson, JsonText(JsNull), JsonText(JsObject) }
        \cup { StringifyChats(chats) : chats \in SavedChats }

\* Strings that can be found under the usage key.
DailyUsageItems ==
    { NoItem, NotJson, JsonText(JsNull), JsonText(JsObject) }
        \cup { JsonText(JsRecord(usage)) : usage \in SavedMainUsages \ { NoItem } }

EmptyStorage ==
    [key \in { STORAGE_KEYS.CHAT_HISTORY, STORAGE_KEYS.DAILY_USAGE,
               STORAGE_KEYS.CURRENT_CHAT_ID } |-> NoItem]

(***************************************************************************)
(* Specifications.                                                         *)
(***************************************************************************)
\* storage.js is not called on the raw strings.
\* The conversation list of Chat.jsx is not followed.
ListParked ==
    /\ conversations = << >>
    /\ chatCurrentId = 0
    /\ sendChatId = 0
    /\ chatNextId = 1
    /\ lsConversations = << >>

StoreParked ==
    /\ localStorage = EmptyStorage
    /\ lsAvailable = "yes"
    /\ ListParked

\* The Chat component alone: no GeminiManager exists.
ChatParked ==
    /\ MODEL_CONFIG = << ModelEntry(0, 1) >>
    /\ lsModelConfig = NoItem
    /\ lsDailyUsage = NoItem
    /\ today = 1
    /\ mounted = FALSE
    /\ activeModelIndex = 0
    /\ activeKeyIndex = 0
    /\ isLoading = FALSE
    /\ notification = << >>
    /\ dailyUsage = [count |-> 0, date |-> 1]
    /\ messages = << >>
    /\ entryModelIndex = 0
    /\ entryKeyIndex = 0
    /\ currentModelIdx = 0
    /\ currentKeyIdx = 0
    /\ updatedMessages = << >>
    /\ requests = << >>
    /\ cursorWrites = 0
    /\ lastResp = NoResult
    /\ sendResult = NoResult
    /\ sends = 0
    /\ pendingClears = 0
    /\ pc = "idle"
    /\ lsChatHistory = NoItem
    /\ fetching = 0

GeminiParked ==
    /\ apiKeys = << "key" >>
    /\ currentKeyIndex = 0
    /\ attempts = 0
    /\ signal = "none"
    /\ history = << >>
    /\ gpc = "idle"
    /\ keyIndexAtEntry = 0
    /\ issued = << >>
    /\ rotations = 0
    /\ lastOutcome = NoResult
    /\ apiResult = NoResult
    /\ failureAlerts = 0
    /\ calls = 0

MainParked ==
    /\ now = 1
    /\ lsUsage = NoItem
    /\ lsChats = << >>
    /\ nextId = 2
    /\ currentChatId = 0
    /\ activeMode = "Solance"
    /\ mainMounted = "no"
    /\ mainMessages = << >>
    /\ isTyping = FALSE
    /\ mainNotification = << >>
    /\ mainDailyUsage = [count |-> 0, date |-> 1]
    /\ abortControllerRef = 0
    /\ controllers = << >>
    /\ inflight = << >>
    /\ mainSends = 0
    /\ mainClears = FALSE
    /\ event = [type |-> "none"]

\* The page renders the Chat component (Chat.jsx).
InitChat == root = "Chat" /\ ChatInit /\ GeminiParked /\ MainParked /\ StoreParked
NextChat ==
    \/ ChatMount /\ UNCHANGED << root, storeVars, geminiVars, mainVars, event >>
    \/ \E text \in Inputs : ChatSendIgnored(text) /\ UNCHANGED << root, storeVars, geminiVars, mainVars, event >>
    \/ \E text \in Inputs : ChatSendLimited(text) /\ UNCHANGED << root, storeVars, geminiVars, mainVars, event >>
    \/ \E text \in Inputs : ChatSend(text) /\ UNCHANGED << root, storeVars, geminiVars, mainVars, event >>
    \/ \E resp \in Responses : ChatFetchSettles(resp) /\ UNCHANGED << root, storeVars, geminiVars, mainVars, event >>
    \/ ChatNotificationTimeout /\ UNCHANGED << root, storeVars, geminiVars, mainVars, event >>
SpecChat == InitChat /\ [][NextChat]_vars

\* The page renders MainChat, whose requests go through callGeminiAPI.
InitGemini == root = "MainChat" /\ GeminiInit /\ ChatParked /\ MainParked /\ StoreParked
NextGemini ==
    \/ \E mode \in Modes, sig \in Signals, hist \in Histories :
          GeminiCall(mode, sig, hist) /\ UNCHANGED << root, storeVars, chatVars, mainVars, event >>
    \/ GeminiAbort /\ UNCHANGED << root, storeVars, chatVars, mainVars, event >>
    \/ \E mode \in Modes, outcome \in ProviderOutcomes :
          GeminiSettles(mode, outcome) /\ UNCHANGED << root, storeVars, chatVars, mainVars, event >>
SpecGemini == InitGemini /\ [][NextGemini]_vars

\* Either component.
Init == InitChat \/ InitGemini
Next ==
    \/ root = "Chat" /\ NextChat
    \/ root = "MainChat" /\ NextGemini
Spec == Init /\ [][Next]_vars

\* The Chat component with the table Chat.jsx defines (lines 6-22: three models
\* with one key each), its handlers observed.
ConfiguredTable == << ModelEntry(0, 1), ModelEntry(1, 1), ModelEntry(2, 1) >>
InitChatObserved == InitChat /\ MODEL_CONFIG = ConfiguredTable
NextChatObserved ==
    \/ /\ ChatMount
       /\ event' = [type |-> "other"]
       /\ UNCHANGED << root, storeVars, geminiVars, mainVars >>
    \/ \E text \in Inputs :
          /\ ChatSendIgnored(text)
          /\ event' = [type |-> "send", text |-> text]
          /\ UNCHANGED << root, storeVars, geminiVars, mainVars >>
    \/ \E text \in Inputs :
          /\ ChatSendLimited(text)
          /\ event' = [type |-> "send", text |-> text]
          /\ UNCHANGED << root, storeVars, geminiVars, mainVars >>
    \/ \E text \in Inputs :
          /\ ChatSend(text)
          /\ event' = [type |-> "send", text |-> text]
          /\ UNCHANGED << root, storeVars, geminiVars, mainVars >>
    \/ \E resp \in Responses :
          /\ ChatFetchSettles(resp)
          /\ event' = [type |-> "other"]
          /\ UNCHANGED << root, storeVars, geminiVars, mainVars >>
    \/ /\ ChatNotificationTimeout
       /\ event' = [type |-> "other"]
       /\ UNCHANGED << root, storeVars, geminiVars, mainVars >>
SpecChatObserved == InitChatObserved /\ [][NextChatObserved]_vars

\* The Chat component with the table Chat.jsx defines, over several sends in
\* one session, started with any stored cursor.
InitChatCursor == InitChatObserved /\ lsDailyUsage = NoItem
NextChatCursor ==
    \/ /\ ChatMount
       /\ event' = [type |-> "other"]
       /\ UNCHANGED << root, storeVars, geminiVars, mainVars >>
    \/ \E text \in Inputs :
          /\ ChatSendIgnored(text)
          /\ event' = [type |-> "send", text |-> text]
          /\ UNCHANGED << root, storeVars, geminiVars, mainVars >>
    \/ \E text \in Inputs :
          /\ sends < MaxCursorSends
          /\ ChatSendAdmitted(text)
          /\ event' = [type |-> "send", text |-> text]
          /\ UNCHANGED << root, storeVars, geminiVars, mainVars >>
    \/ \E resp \in Responses :
          /\ ChatFetchSettles(resp)
          /\ event' = [type |-> "other"]
          /\ UNCHANGED << root, storeVars, geminiVars, mainVars >>
    \/ /\ ChatNotificationTimeout
       /\ event' = [type |-> "other"]
       /\ UNCHANGED << root, storeVars, geminiVars, mainVars >>
SpecChatCursor == InitChatCursor /\ [][NextChatCursor]_vars

(***************************************************************************)
(* Chat.jsx: the conversation list.                                        *)
(***************************************************************************)
\* Lines 131-135 and 146-150: a conversation just created.
NewConversation(id) == [id |-> id, messages |-> << >>]

ConversationIds(list) == { list[i].id : i \in DOMAIN list }

\* Line 128: conversations.find(c => c.id === currentChatId).
getCurrentChat(list, id) ==
    IF id \in ConversationIds(list)
    THEN list[CHOOSE i \in DOMAIN list :
                  list[i].id = id /\ \A j \in 1..(i - 1) : list[j].id # id]
    ELSE NoItem

\* Faulty variant: a conversation that is not in the list is put back.
SetChatMessages_Recreate(list, id, msgs) ==
    IF id \in ConversationIds(list)
    THEN [i \in DOMAIN list |->
             IF list[i].id = id THEN [list[i] EXCEPT !.messages = msgs] ELSE list[i]]
    ELSE << [id |-> id, messages |-> msgs] >> \o list

\* Lines 177-179 and 283-285: prev.map(c => c.id === id ? {...c, messages} : c).
SetChatMessages(list, id, msgs) ==
    [i \in DOMAIN list |->
        IF list[i].id = id THEN [list[i] EXCEPT !.messages = msgs] ELSE list[i]]

\* Lines 142 and 154: conversations.filter(c => c.id !== chatId).
FilterConversations(list, chatId) ==
    SelectSeq(list, LAMBDA c : c.id # chatId)

\* Lines 106-110: the effect stores a list that is not empty.
SaveConversations(list, stored) == IF Len(list) > 0 THEN list ELSE stored

\* What localStorage can hold for 'chatHistory' when the page loads: nothing, or
\* a list this program saved (never empty, newest first, the newest not used yet).
SavedConversations ==
    { << >>,
      << NewConversation(1) >>,
      << NewConversation(2),
         [id |-> 1, messages |-> << UserMessage(<< "hi" >>),
                                    BotMessage(<< "hello" >>) >>] >> }

\* The handlers of the list leave the rest of the component alone.
ChatListRest ==
    UNCHANGED << MODEL_CONFIG, lsModelConfig, lsDailyUsage, today, mounted,
                 activeModelIndex, activeKeyIndex, isLoading, notification,
                 dailyUsage, entryModelIndex, entryKeyIndex, currentModelIdx,
                 currentKeyIdx, updatedMessages, requests, cursorWrites, lastResp,
                 sendResult, sends, pendingClears, pc, fetching >>

\* The render after a handler of the list: the current conversation is shown
\* and the effect of lines 106-110 stores the list.
ChatListRendered ==
    /\ messages' = IF getCurrentChat(conversations', chatCurrentId') = NoItem
                   THEN << >>
                   ELSE getCurrentChat(conversations', chatCurrentId').messages
    /\ lsChatHistory' = messages'
    /\ lsConversations' = SaveConversations(conversations', lsConversations)

\* Lines 54-76: the load effect.
ChatListMount ==
    /\ ChatMount
    /\ IF lsConversations # << >>
       THEN /\ conversations' = lsConversations
            /\ chatCurrentId' = lsConversations[1].id
            /\ UNCHANGED chatNextId
       ELSE /\ conversations' = << NewConversation(chatNextId) >>
            /\ chatCurrentId' = chatNextId
            /\ chatNextId' = chatNextId + 1
    /\ lsConversations' = SaveConversations(conversations', lsConversations)
    /\ UNCHANGED sendChatId

\* Lines 130-139, the New Chat button.
ChatCreateNewChat ==
    /\ mounted
    /\ chatNextId <= MaxConversationId
    /\ conversations' = << NewConversation(chatNextId) >> \o conversations
    /\ chatCurrentId' = chatNextId
    /\ chatNextId' = chatNextId + 1
    /\ ChatListRendered
    /\ ChatListRest
    /\ UNCHANGED sendChatId

\* Faulty variant: the current conversation stays selected when it is deleted.
CurrentAfterDelete_Keep(updatedConversations, chatId, current) == current

\* Lines 155-157: the conversation selected once chatId is deleted and others
\* remain.
CurrentAfterDelete(updatedConversations, chatId, current) ==
    IF chatId = current THEN updatedConversations[1].id ELSE current

\* Lines 141-159.
handleDeleteChat(chatId) ==
    LET updatedConversations == FilterConversations(conversations, chatId)
    IN  /\ mounted
        /\ chatId \in ConversationIds(conversations)
        /\ IF Len(updatedConversations) = 0
           THEN /\ chatNextId <= MaxConversationId
                /\ conversations' = << NewConversation(chatNextId) >>
                /\ chatCurrentId' = chatNextId
                /\ chatNextId' = chatNextId + 1
           ELSE /\ conversations' = updatedConversations
                /\ chatCurrentId' = CurrentAfterDelete(updatedConversations, chatId,
                                                       chatCurrentId)
                /\ UNCHANGED chatNextId
        /\ ChatListRendered
        /\ ChatListRest
        /\ UNCHANGED sendChatId

\* Line 350: a conversation of the sidebar is clicked.
ChatSelect(chatId) ==
    /\ mounted
    /\ chatId \in ConversationIds(conversations)
    /\ chatCurrentId' = chatId
    /\ UNCHANGED << conversations, chatNextId, sendChatId >>
    /\ ChatListRendered
    /\ ChatListRest

\* handleSendMessage in the current conversation (lines 164-165, 173-179), up
\* to its first await or its end.
ChatListSend(text) ==
    /\ getCurrentChat(conversations, chatCurrentId) # NoItem
    /\ ChatSend(text)
    /\ sendChatId' = chatCurrentId
    /\ conversations' =
           SetChatMessages(conversations, chatCurrentId,
               IF pc' = "idle"
               THEN Append(updatedMessages', BotMessage(sendResult'.botText))
               ELSE updatedMessages')
    /\ lsConversations' = SaveConversations(conversations', lsConversations)
    /\ UNCHANGED << chatCurrentId, chatNextId >>

\* The fetch settles; at the end of the handler lines 281-285 write the answer
\* into the conversation the handler was started in.
ChatListSettles(resp) ==
    /\ ChatFetchSettles(resp)
    /\ conversations' =
           IF pc' = "idle"
           THEN SetChatMessages(conversations, sendChatId,
                    Append(updatedMessages, BotMessage(sendResult'.botText)))
           ELSE conversations
    /\ lsConversations' = SaveConversations(conversations', lsConversations)
    /\ UNCHANGED << chatCurrentId, sendChatId, chatNextId >>

\* The answers followed with the conversation list: a retryable failure, a
\* failure that ends the send, an answer.
ListResponses ==
    { resp \in Responses :
         \/ resp.status = 429
         \/ resp.kind = "reject"
         \/ resp.status = 200 /\ resp.text = << "hello" >> }

\* The Chat component with its conversation list.
InitChatList ==
    /\ root = "Chat"
    /\ ChatInit /\ GeminiParked /\ MainParked
    /\ MODEL_CONFIG = ConfiguredTable
    /\ lsModelConfig = NoItem
    /\ lsDailyUsage = NoItem
    /\ localStorage = EmptyStorage
    /\ lsAvailable = "yes"
    /\ conversations = << >>
    /\ chatCurrentId = 0
    /\ sendChatId = 0
    /\ lsConversations \in SavedConversations
    /\ chatNextId = 3
NextChatList ==
    \/ /\ ChatListMount
       /\ event' = [type |-> "other"]
       /\ UNCHANGED << root, localStorage, lsAvailable, geminiVars, mainVars >>
    \/ /\ ChatCreateNewChat
       /\ event' = [type |-> "other"]
       /\ UNCHANGED << root, localStorage, lsAvailable, geminiVars, mainVars >>
    \/ \E chatId \in 1..MaxConversationId :
          /\ handleDeleteChat(chatId)
          /\ event' = [type |-> "delete", chatId |-> chatId,
                       current |-> chatCurrentId,
                       left |-> Len(FilterConversations(conversations, chatId))]
          /\ UNCHANGED << root, localStorage, lsAvailable, geminiVars, mainVars >>
    \/ \E chatId \in 1..MaxConversationId :
          /\ ChatSelect(chatId)
          /\ event' = [type |-> "other"]
          /\ UNCHANGED << root, localStorage, lsAvailable, geminiVars, mainVars >>
    \/ \E text \in Inputs :
          /\ ChatListSend(text)
          /\ event' = [type |-> "other"]
          /\ UNCHANGED << root, localStorage, lsAvailable, geminiVars, mainVars >>
    \/ \E resp \in ListResponses :
          /\ ChatListSettles(resp)
          /\ event' = [type |-> "other"]
          /\ UNCHANGED << root, localStorage, lsAvailable, geminiVars, mainVars >>
    \/ /\ ChatNotificationTimeout
       /\ event' = [type |-> "other"]
       /\ UNCHANGED << root, storeVars, geminiVars, mainVars >>
SpecChatList == InitChatList /\ [][NextChatList]_vars

\* The Chat component kept open over a change of day.
InitChatDays == InitChatObserved
NextChatDays ==
    \/ NextChatObserved
    \/ /\ ChatTick
       /\ event' = [type |-> "other"]
       /\ UNCHANGED << root, storeVars, geminiVars, mainVars >>
SpecChatDays == InitChatDays /\ [][NextChatDays]_vars

\* storage.js alone, called directly.
InitStorage ==
    root = "storage" /\ StorageInit /\ ChatParked /\ GeminiParked /\ StoreParked
NextStorage ==
    \/ CallGetDailyUsage /\ UNCHANGED << root, storeVars, chatVars, geminiVars >>
    \/ CallIncrementDailyUsage /\ UNCHANGED << root, storeVars, chatVars, geminiVars >>
    \/ CallIsDailyLimitReached /\ UNCHANGED << root, storeVars, chatVars, geminiVars >>
    \/ StorageTick /\ UNCHANGED << root, storeVars, chatVars, geminiVars >>
SpecStorage == InitStorage /\ [][NextStorage]_vars

\* The page renders App; MainChat over storage.js and the GeminiManager of
\* api.js, with one conversation, across midnight.
InitMain ==
    /\ root = "App"
    /\ MainInit
    /\ GeminiInit
    /\ Len(apiKeys) = MaxKeys
    /\ ChatParked
    /\ StoreParked
NextMain ==
    \/ MainMount /\ UNCHANGED << root, storeVars, chatVars, geminiCallVars >>
    \/ MainUnmount /\ UNCHANGED << root, storeVars, chatVars, geminiCallVars >>
    \/ Tick /\ UNCHANGED << root, storeVars, chatVars, geminiCallVars >>
    \/ MainUsagePoll /\ UNCHANGED << root, storeVars, chatVars, geminiCallVars >>
    \/ MainNotificationTimeout /\ UNCHANGED << root, storeVars, chatVars, geminiCallVars >>
    \/ \E text \in Inputs :
          MainSendIgnored(text) /\ UNCHANGED << root, storeVars, chatVars, geminiCallVars >>
    \/ \E text \in Inputs :
          MainSendLimited(text) /\ UNCHANGED << root, storeVars, chatVars, geminiCallVars >>
    \/ \E text \in Inputs :
          /\ mainSends < MaxMainSends
          /\ MainSend(text) /\ UNCHANGED << root, storeVars, chatVars, geminiCallVars >>
    \/ \E i \in 1..MaxMainSends, outcome \in ProviderOutcomes :
          MainSettles(i, outcome) /\ UNCHANGED << root, storeVars, chatVars, geminiCallVars >>
SpecMain == InitMain /\ [][NextMain]_vars

\* The same page within one day, with the conversation operations of the sidebar.
InitApp ==
    /\ InitMain
    /\ lsUsage \in { NoItem, [count |-> MAX_DAILY_MESSAGES - 1, date |-> 1] }
NextApp ==
    \/ MainMount /\ UNCHANGED << root, storeVars, chatVars, geminiCallVars >>
    \/ MainUnmount /\ UNCHANGED << root, storeVars, chatVars, geminiCallVars >>
    \/ SidebarNewChat /\ UNCHANGED << root, storeVars, chatVars, geminiCallVars >>
    \/ \E chatId \in 1..MaxChatId :
          SidebarChatClick(chatId) /\ UNCHANGED << root, storeVars, chatVars, geminiCallVars >>
    \/ \E chatId \in 1..MaxChatId :
          SidebarDeleteChat(chatId) /\ UNCHANGED << root, storeVars, chatVars, geminiCallVars >>
    \/ \E text \in Inputs :
          MainSendIgnored(text) /\ UNCHANGED << root, storeVars, chatVars, geminiCallVars >>
    \/ \E text \in Inputs :
          MainSendLimited(text) /\ UNCHANGED << root, storeVars, chatVars, geminiCallVars >>
    \/ \E text \in Inputs :
          /\ mainSends < MaxAppSends
          /\ MainSend(text) /\ UNCHANGED << root, storeVars, chatVars, geminiCallVars >>
    \/ \E i \in 1..MaxAppSends, outcome \in ProviderOutcomes :
          MainSettles(i, outcome) /\ UNCHANGED << root, storeVars, chatVars, geminiCallVars >>
SpecApp == InitApp /\ [][NextApp]_vars

\* Either page, with conversations deleted while a send is in flight.
InitDeleted ==
    \/ InitChatList
    \/ InitMain /\ lsUsage = NoItem
NextDeleted ==
    \/ root = "Chat" /\ NextChatList
    \/ /\ root = "App"
       /\ \/ MainMount /\ UNCHANGED << root, storeVars, chatVars, geminiCallVars >>
          \/ \E chatId \in 1..MaxChatId :
                SidebarChatClick(chatId)
                    /\ UNCHANGED << root, storeVars, chatVars, geminiCallVars >>
          \/ \E chatId \in 1..MaxChatId :
                SidebarDeleteChat(chatId)
                    /\ UNCHANGED << root, storeVars, chatVars, geminiCallVars >>
          \/ \E text \in Inputs :
                /\ mainSends < MaxAppSends
                /\ MainSend(text)
                /\ UNCHANGED << root, storeVars, chatVars, geminiCallVars >>
          \/ \E i \in 1..MaxAppSends, outcome \in ProviderOutcomes :
                MainSettles(i, outcome)
                    /\ UNCHANGED << root, storeVars, chatVars, geminiCallVars >>
SpecDeleted == InitDeleted /\ [][NextDeleted]_vars

\* The same page with an earlier conversation in the list: the user sends and
\* goes from one conversation to the other.
InitSwitch ==
    /\ InitMain
    /\ lsUsage = NoItem
    /\ lsChats # << >>
NextSwitch ==
    \/ MainMount /\ UNCHANGED << root, storeVars, chatVars, geminiCallVars >>
    \/ \E chatId \in 1..MaxChatId :
          SidebarChatClick(chatId)
              /\ UNCHANGED << root, storeVars, chatVars, geminiCallVars >>
    \/ \E text \in Inputs :
          MainSendIgnored(text)
              /\ UNCHANGED << root, storeVars, chatVars, geminiCallVars >>
    \/ \E text \in Inputs :
          /\ mainSends < MaxSwitchSends
          /\ MainSend(text)
          /\ UNCHANGED << root, storeVars, chatVars, geminiCallVars >>
    \/ \E i \in 1..MaxSwitchSends, outcome \in ProviderOutcomes :
          MainSettles(i, outcome)
              /\ UNCHANGED << root, storeVars, chatVars, geminiCallVars >>
SpecSwitch == InitSwitch /\ [][NextSwitch]_vars

\* The same page with the modes of the sidebar: the user changes the mode,
\* with or without an earlier conversation of another mode in the list.
InitModes ==
    /\ root = "App"
    /\ MainStart
    /\ lsUsage = NoItem
    /\ lsChats \in SavedModeChats
    /\ GeminiInit
    /\ Len(apiKeys) = MaxKeys
    /\ ChatParked
    /\ StoreParked
NextModes ==
    \/ MainMount /\ UNCHANGED << root, storeVars, chatVars, geminiCallVars >>
    \/ \E mode \in Modes :
          SidebarSetMode(mode)
              /\ UNCHANGED << root, storeVars, chatVars, geminiCallVars >>
    \/ \E chatId \in 1..MaxChatId :
          SidebarChatClick(chatId)
              /\ UNCHANGED << root, storeVars, chatVars, geminiCallVars >>
    \/ \E text \in Inputs :
          MainSendIgnored(text)
              /\ UNCHANGED << root, storeVars, chatVars, geminiCallVars >>
    \/ \E text \in Inputs :
          /\ mainSends < MaxAppSends
          /\ MainSend(text)
          /\ UNCHANGED << root, storeVars, chatVars, geminiCallVars >>
    \/ \E i \in 1..MaxAppSends, outcome \in ProviderOutcomes :
          MainSettles(i, outcome)
              /\ UNCHANGED << root, storeVars, chatVars, geminiCallVars >>
SpecModes == InitModes /\ [][NextModes]_vars

\* storage.js called directly on the stored strings: the operations on the
\* conversation list, or those on the usage record and the current-chat id.
InitStoreChats ==
    /\ root = "chats"
    /\ MainParked /\ ChatParked /\ GeminiParked /\ ListParked
    /\ lsAvailable \in Availabilities
    /\ \E item \in ChatHistoryItems :
          localStorage = [EmptyStorage EXCEPT ![STORAGE_KEYS.CHAT_HISTORY] = item]
NextStoreChats ==
    \/ CallGetChatHistory /\ UNCHANGED << root, chatVars, geminiVars >>
    \/ CallSaveChatHistory /\ UNCHANGED << root, chatVars, geminiVars >>
    \/ \E mode \in StoreModes :
          CallCreateNewChat(mode) /\ UNCHANGED << root, chatVars, geminiVars >>
    \/ \E chatId \in 1..MaxStoreChats, msgs \in StoreMessageLists :
          CallUpdateChatMessages(chatId, msgs)
              /\ UNCHANGED << root, chatVars, geminiVars >>
    \/ \E chatId \in 1..MaxStoreChats :
          CallDeleteChat(chatId) /\ UNCHANGED << root, chatVars, geminiVars >>
    \/ \E chatId \in 1..MaxStoreChats :
          CallGetChatById(chatId) /\ UNCHANGED << root, chatVars, geminiVars >>
    \/ \E chatId \in 1..MaxStoreChats, message \in StoreMessages :
          AppendPersistReload(chatId, message)
              /\ UNCHANGED << root, chatVars, geminiVars >>
SpecStoreChats == InitStoreChats /\ [][NextStoreChats]_vars

InitStoreUsage ==
    /\ root = "usage"
    /\ MainParked /\ ChatParked /\ GeminiParked /\ ListParked
    /\ lsAvailable \in Availabilities
    /\ \E item \in DailyUsageItems, current \in { NoItem, StringOf(1) } :
          localStorage = [EmptyStorage EXCEPT ![STORAGE_KEYS.DAILY_USAGE] = item,
                                              ![STORAGE_KEYS.CURRENT_CHAT_ID] = current]
NextStoreUsage ==
    \/ CallGetCurrentChatId /\ UNCHANGED << root, chatVars, geminiVars >>
    \/ \E chatId \in 1..MaxStoreChats :
          CallSaveCurrentChatId(chatId) /\ UNCHANGED << root, chatVars, geminiVars >>
    \/ CallStoredGetDailyUsage /\ UNCHANGED << root, chatVars, geminiVars >>
    \/ CallStoredIncrementDailyUsage /\ UNCHANGED << root, chatVars, geminiVars >>
SpecStoreUsage == InitStoreUsage /\ [][NextStoreUsage]_vars

InitStore == InitStoreChats \/ InitStoreUsage
NextStore ==
    \/ root = "chats" /\ NextStoreChats
    \/ root = "usage" /\ NextStoreUsage
SpecStore == InitStore /\ [][NextStore]_vars

\* Either page, its handlers observed: Chat, or App with MainChat.
InitSend == InitChatObserved \/ InitMain
NextSend ==
    \/ root = "Chat" /\ NextChatObserved
    \/ root = "App" /\ NextMain
SpecSend == InitSend /\ [][NextSend]_vars

\* Either page opened for the first time, with every pending request settling
\* sooner or later: a fetch and a call of the provider's SDK end by resolving
\* or rejecting.
ChatSettleStep ==
    /\ root = "Chat"
    /\ \E resp \in Responses :
          /\ ChatFetchSettles(resp)
          /\ event' = [type |-> "other"]
          /\ UNCHANGED << root, storeVars, geminiVars, mainVars >>
MainSettleStep ==
    /\ root = "App"
    /\ \E i \in 1..MaxMainSends, outcome \in ProviderOutcomes :
          MainSettles(i, outcome) /\ UNCHANGED << root, storeVars, chatVars, geminiCallVars >>
InitSendLive ==
    \/ InitChatObserved /\ lsModelConfig = NoItem
    \/ InitMain /\ lsChats = << >>
SpecSendLive ==
    /\ InitSendLive
    /\ [][NextSend]_vars
    /\ WF_vars(ChatSettleStep)
    /\ WF_vars(MainSettleStep)

(***************************************************************************)
(* Vocabulary of the properties.                                           *)
(***************************************************************************)
\* The response classes, as the specification words them.
RespThrows(resp) == resp.kind = "reject" \/ ~(resp.status \in 200..299)
RespRetryable(resp) ==
    \/ resp.kind = "http" /\ resp.status \in { 429, 503 }
    \/ RespThrows(resp) /\ Includes(resp.error, "Loading")
RespFatal(resp) == RespThrows(resp) /\ ~RespRetryable(resp)
RespErrorText(resp) ==
    IF resp.error # << >> THEN resp.error ELSE << "HTTP", Numeral(resp.status) >>

\* sum(Ki) over the table.
RECURSIVE KeySum(_)
KeySum(table) ==
    IF table = << >> THEN 0 ELSE Len(Head(table).apiKeys) + KeySum(Tail(table))

KeyCounts == [i \in DOMAIN MODEL_CONFIG |-> Len(MODEL_CONFIG[i].apiKeys)]

PosLess(a, b) ==
    a.modelIdx < b.modelIdx \/ (a.modelIdx = b.modelIdx /\ a.keyIdx < b.keyIdx)

\* b is the position that follows a: the next credential of the same model, or
\* credential 0 of the next model when a was the model's last credential.
PosFollows(a, b) ==
    IF a.keyIdx + 1 < KeyCounts[a.modelIdx + 1]
    THEN b.modelIdx = a.modelIdx /\ b.keyIdx = a.keyIdx + 1
    ELSE b.modelIdx = a.modelIdx + 1 /\ b.keyIdx = 0

Positions(reqs) == [i \in DOMAIN reqs |-> << reqs[i].modelIdx, reqs[i].keyIdx >>]

EntryCursor == [modelIndex |-> entryModelIndex, keyIndex |-> entryKeyIndex]
ActiveCursor == [modelIndex |-> activeModelIndex, keyIndex |-> activeKeyIndex]

ChatSendFinished == root = "Chat" /\ pc = "idle" /\ sendResult # NoResult
ChatSendRunning == root = "Chat" /\ pc = "fetch"

LastRequest == requests[Len(requests)]

(***************************************************************************)
(* C1.  One send of Chat.jsx issues at most sum(Ki) requests, at strictly  *)
(* increasing positions: first the entry cursor (its key index clamped),   *)
(* then each time the next credential of the same model or credential 0 of *)
(* the next model.                                                         *)
(***************************************************************************)
C1_AttemptsBoundedAndOrdered ==
    (root = "Chat" /\ requests # << >>) =>
        /\ Len(requests) <= KeySum(MODEL_CONFIG)
        /\ requests[1].modelIdx = entryModelIndex
        /\ requests[1].keyIdx =
              (IF entryKeyIndex >= KeyCounts[entryModelIndex + 1] THEN 0 ELSE entryKeyIndex)
        /\ \A i \in 1..(Len(requests) - 1) :
              /\ PosLess(requests[i], requests[i + 1])
              /\ PosFollows(requests[i], requests[i + 1])

(***************************************************************************)
(* C2.  A non-retryable error ends the send of Chat.jsx at once: no        *)
(* further request, the cursor where it was at entry, and the error text   *)
(* as the failure reason.                                                  *)
(***************************************************************************)
C2_FatalEndsLoop ==
    (root = "Chat" /\ lastResp # NoResult /\ RespFatal(lastResp)) =>
        /\ pc = "idle"
        /\ sendResult # NoResult
        /\ ~sendResult.success
        /\ sendResult.botText = << "Error:" >> \o RespErrorText(lastResp)
        /\ messages[Len(messages)] = BotMessage(sendResult.botText)
        /\ ActiveCursor = EntryCursor
        /\ lsModelConfig = EntryCursor
        /\ cursorWrites = 0
        /\ currentModelIdx = LastRequest.modelIdx
        /\ currentKeyIdx = LastRequest.keyIdx

\* A fatal error on an attempt that had untried positions after it.
C2_Witness ==
    /\ root = "Chat" /\ lastResp # NoResult /\ RespFatal(lastResp)
    /\ pc = "idle"
    /\ Len(requests) = 2
    /\ LastRequest.modelIdx + 1 < Len(MODEL_CONFIG)
    /\ KeyCounts[LastRequest.modelIdx + 2] > 0

(***************************************************************************)
(* Vocabulary of the GeminiManager properties.                             *)
(***************************************************************************)
TotalKeys == Len(apiKeys)
LastIssued == issued[Len(issued)]

\* The last settled request ended in an error and the signal is not aborted.
GeminiAttemptFailed ==
    /\ root = "MainChat"
    /\ lastOutcome # NoResult
    /\ lastOutcome.kind = "reject"
    /\ ~Aborted(signal)

\* ... in an error that is not a rate limit or an overload.
GeminiFatal(outcome) ==
    /\ outcome.kind = "reject"
    /\ ~Includes(outcome.text, "429")
    /\ ~Includes(outcome.text, "503")

C4_CursorPersistedOnce ==
    (ChatSendFinished /\ sendResult.success) =>
        LET P == [modelIndex |-> LastRequest.modelIdx, keyIndex |-> LastRequest.keyIdx]
        IN  /\ ActiveCursor = P
            /\ lsModelConfig = P
            /\ cursorWrites = (IF P # EntryCursor THEN 1 ELSE 0)

\* A success on another credential of the model the send started with.
C4_Witness ==
    /\ ChatSendFinished /\ sendResult.success
    /\ LastRequest.modelIdx = entryModelIndex
    /\ LastRequest.keyIdx # entryKeyIndex
    /\ cursorWrites = 1

(***************************************************************************)
(* C5.  The scenario: credential counts [1,2,1], entry cursor (0,0), two   *)
(* retryable failures, then HTTP 200 with text "hello".                    *)
(***************************************************************************)
C5_Scenario ==
    /\ ChatSendFinished
    /\ KeyCounts = << 1, 2, 1 >>
    /\ EntryCursor = [modelIndex |-> 0, keyIndex |-> 0]
    /\ Len(requests) = 3
    /\ lastResp # NoResult
    /\ lastResp.status = 200
    /\ lastResp.text = << "hello" >>

\* C5 as stated: the third attempt is at model 2 / credential 1, the result is
\* success with text "hello" from model 2, and the cursor is persisted as (1,0).
C5_CursorOneZero ==
    C5_Scenario =>
        /\ sendResult.success
        /\ sendResult.botText = << "hello" >>
        /\ LastRequest.id = MODEL_CONFIG[2].id
        /\ Positions(requests)[3] = << 1, 0 >>
        /\ lsModelConfig = [modelIndex |-> 1, keyIndex |-> 0]

\* C5 as amended: the attempts are made at (0,0), (1,0) and (1,1); the third is
\* at model 2 / credential 2, the result is success with text "hello" from
\* model 2, and the cursor is persisted as (1,1).
C5_CursorOneOne ==
    C5_Scenario =>
        /\ sendResult.success
        /\ sendResult.botText = << "hello" >>
        /\ messages[Len(messages)] = BotMessage(<< "hello" >>)
        /\ LastRequest.id = MODEL_CONFIG[2].id
        /\ Positions(requests) = << << 0, 0 >>, << 1, 0 >>, << 1, 1 >> >>
        /\ lsModelConfig = [modelIndex |-> 1, keyIndex |-> 1]
        /\ ActiveCursor = [modelIndex |-> 1, keyIndex |-> 1]

C5_Witness == C5_Scenario /\ sendResult.success /\ cursorWrites = 1

(***************************************************************************)
(* C6.  When every attempt of a send fails retryably, the result is a      *)
(* failure carrying the fixed fallback text, and the cursor is where it    *)
(* was at entry: activeModelIndex/activeKeyIndex and 'activeModelConfig'   *)
(* in Chat.jsx, currentKeyIndex in GeminiManager.                          *)
(***************************************************************************)
ChatExhausted ==
    /\ ChatSendFinished
    /\ lastResp = NoResult \/ RespRetryable(lastResp)

GeminiExhausted == GeminiAttemptFailed /\ gpc = "idle"

C6_ExhaustionFallback ==
    /\ ChatExhausted =>
        /\ ~sendResult.success
        /\ sendResult.botText = FallbackText
        /\ messages[Len(messages)] = BotMessage(FallbackText)
        /\ ActiveCursor = EntryCursor
        /\ lsModelConfig = EntryCursor
        /\ cursorWrites = 0
    /\ GeminiExhausted =>
        /\ apiResult # NoResult
        /\ ~apiResult.success
        /\ ~apiResult.isCancelled
        /\ apiResult.text = BusyText
        /\ Len(issued) = TotalKeys
        /\ currentKeyIndex = keyIndexAtEntry

\* Three attempts of one send all failed retryably.
C6_Witness == ChatExhausted /\ Len(requests) = 3 /\ lastResp # NoResult

(***************************************************************************)
(* C7 as stated.  A cancelled generateResponse leaves currentKeyIndex at   *)
(* the value it had when the call was entered.                             *)
(***************************************************************************)
GeminiCallEnded == root = "MainChat" /\ gpc = "idle" /\ apiResult # NoResult

C7_KeyIndexAsAtEntry ==
    (GeminiCallEnded /\ apiResult.isCancelled) => currentKeyIndex = keyIndexAtEntry

(***************************************************************************)
(* C7 as amended.  When the signal is aborted before or during an attempt  *)
(* of generateResponse, the call ends with a cancellation result           *)
(* (isCancelled), no attempt follows the cancelled one, the cancelled      *)
(* attempt is not counted as a failure, and currentKeyIndex is left at the *)
(* key of the cancelled attempt: the entry index advanced by the attempts  *)
(* of this call that failed before it.                                     *)
(***************************************************************************)
C7_CancelLeavesKeyOfAttempt ==
    (GeminiCallEnded /\ (Aborted(signal) \/ apiResult.isCancelled)) =>
        /\ Aborted(signal)
        /\ apiResult.isCancelled
        /\ ~apiResult.success
        /\ apiResult.text = CancelledText
        /\ rotations = Len(issued) - 1
        /\ attempts = rotations
        /\ currentKeyIndex = LastIssued.keyIdx
        /\ currentKeyIndex = (keyIndexAtEntry + rotations) % TotalKeys

\* Cancelled during the second attempt, after the first key failed.
C7_Witness ==
    /\ GeminiCallEnded
    /\ apiResult.isCancelled
    /\ keyIndexAtEntry = 0
    /\ rotations = 1
    /\ currentKeyIndex = 1

(***************************************************************************)
(* C8.  generateResponse checks the signal before issuing a request (an    *)
(* already aborted signal means no request is sent) and after the request  *)
(* resolves (an aborted signal means the response is not returned as a     *)
(* success).                                                               *)
(***************************************************************************)
C8_SignalCheckedBeforeAndAfter ==
    root = "MainChat" =>
        /\ \A i \in DOMAIN issued : ~issued[i].abortedAtIssue
        /\ (GeminiCallEnded /\ Aborted(signal)) => ~apiResult.success

(***************************************************************************)
(* C9.  No request is issued for a model whose credential list is empty,   *)
(* and no credential is read outside the list.                             *)
(***************************************************************************)
C9_EmptyKeyListSkipped ==
    root = "Chat" =>
        \A i \in DOMAIN requests :
            /\ requests[i].keys > 0
            /\ requests[i].apiKey # "undefined"

(***************************************************************************)
(* C10.  Every issued request uses a credential index strictly below the   *)
(* credential count of its model; a cursor whose credentialIndex is out of *)
(* range for its model is attempted at credential 0.                       *)
(***************************************************************************)
C10_KeyIndexInRange ==
    root = "Chat" =>
        /\ \A i \in DOMAIN requests : requests[i].keyIdx < requests[i].keys
        /\ (requests # << >> /\ entryKeyIndex >= requests[1].keys) => requests[1].keyIdx = 0

CountOn(stored, t) ==
    IF stored = NoItem \/ stored.date # t THEN 0 ELSE stored.count

\* The step is a run of MainChat's handleSendMessage.
MainSendStep == root = "App" /\ event'.type = "send"

\* ... and it was admitted.
MainAdmittedStep == MainSendStep /\ mainSends' = mainSends + 1

(***************************************************************************)
(* C13.  MainChat admits a send only while the stored count of the day is  *)
(* below MAX_DAILY_MESSAGES: a send made when the count is 25 or more      *)
(* starts no call and leaves the usage record alone, every admitted send   *)
(* found a count below 25, and the stored count never exceeds 25.          *)
(***************************************************************************)
C13_CountWithinLimit ==
    root = "App" =>
        /\ lsUsage # NoItem => lsUsage.count <= MAX_DAILY_MESSAGES
        /\ \A i \in DOMAIN inflight :
              /\ CountOn(inflight[i].usageAtEntry, inflight[i].day) < MAX_DAILY_MESSAGES
              /\ inflight[i].usageAtIssue.count <= MAX_DAILY_MESSAGES

C13_LimitedSendStartsNothing ==
    (MainSendStep /\ CountOn(lsUsage, now) >= MAX_DAILY_MESSAGES) =>
        UNCHANGED << inflight, lsUsage, mainSends, controllers >>

C13_AdmittedOnlyBelowLimit ==
    [](C13_CountWithinLimit) /\ [][C13_LimitedSendStartsNothing]_vars

\* The 25th message of the day was admitted and the next send was refused.
C13_Witness ==
    /\ root = "App"
    /\ event.type = "send"
    /\ mainSends = 1
    /\ lsUsage = [count |-> MAX_DAILY_MESSAGES, date |-> now]
    /\ inflight = << >>
    /\ mainNotification = MainLimitNotice

(***************************************************************************)
(* C14.  A run of handleSendMessage (MainChat.jsx and Chat.jsx) made with  *)
(* an empty trimmed input, while a send is in flight, or with the daily    *)
(* limit reached leaves the conversation (in memory and stored), the usage *)
(* record (in memory and stored) and the failover cursor as they were and  *)
(* issues no request.                                                      *)
(***************************************************************************)
ChatSendStep == root = "Chat" /\ event'.type = "send"

C14_MainRejectedSend ==
    (MainSendStep /\ (\/ Trim(event'.text) = << >>
                      \/ isTyping
                      \/ CountOn(lsUsage, now) >= MAX_DAILY_MESSAGES)) =>
        UNCHANGED << mainMessages, lsChats, lsUsage, mainDailyUsage, currentKeyIndex,
                     inflight, controllers, abortControllerRef, mainSends >>

C14_ChatRejectedSend ==
    (ChatSendStep /\ (\/ Trim(event'.text) = << >>
                      \/ isLoading
                      \/ dailyUsage.count >= MAX_DAILY_MESSAGES)) =>
        UNCHANGED << messages, lsChatHistory, dailyUsage, lsDailyUsage,
                     activeModelIndex, activeKeyIndex, lsModelConfig, requests,
                     fetching, pc, sends >>

C14_RejectedSendIsNoOp ==
    [][C14_MainRejectedSend /\ C14_ChatRejectedSend]_vars

\* A whitespace-only input was submitted to MainChat while a call was in flight.
C14_Witness ==
    /\ root = "App"
    /\ event.type = "send"
    /\ event.text = << " " >>
    /\ isTyping
    /\ Len(inflight) = 1

(***************************************************************************)
(* C15 as stated.  For every admitted send the user message is in the      *)
(* stored conversation when a request of that send is issued.              *)
(***************************************************************************)
\* The stored conversation a run of MainChat's handler was sent from, when its
\* first request went out.
StoredAtIssue(run) == getChatById(run.chatsAtIssue, run.chatId)

C15_MainStoredBeforeRequest ==
    root = "App" =>
        \A i \in DOMAIN inflight :
            /\ StoredAtIssue(inflight[i]) # NoItem
            /\ StoredAtIssue(inflight[i]).messages = inflight[i].updatedMessages
            /\ inflight[i].updatedMessages[Len(inflight[i].updatedMessages)]
                  = MainUserMessage(inflight[i].prompt)

C15_StoredBeforeRequest ==
    /\ C15_MainStoredBeforeRequest
    /\ root = "Chat" =>
          \A i \in DOMAIN requests : requests[i].saved = updatedMessages

(***************************************************************************)
(* C15 as amended.  MainChat writes the user message to the stored         *)
(* conversation before it calls callGeminiAPI.  Chat.jsx puts the message  *)
(* into its state before the first fetch and stores it in the render that  *)
(* follows the handler's synchronous part: the first request of a send is  *)
(* issued before the write, and the message is stored whenever a fetch is  *)
(* pending and before every later request of the send.                     *)
(***************************************************************************)
C15_StoredBeforeSettle ==
    /\ C15_MainStoredBeforeRequest
    /\ (root = "Chat" /\ requests # << >>) =>
          /\ updatedMessages # << >>
          /\ updatedMessages[Len(updatedMessages)].role = "user"
          /\ requests[1].saved = SubSeq(updatedMessages, 1, Len(updatedMessages) - 1)
          /\ \A i \in 2..Len(requests) : requests[i].saved = updatedMessages
          /\ pc = "fetch" => lsChatHistory = updatedMessages

\* A send of Chat.jsx awaiting its second fetch: the first went out before the
\* message was stored, the second after.
C15_Witness ==
    /\ root = "Chat"
    /\ pc = "fetch"
    /\ Len(requests) = 2
    /\ requests[1].saved = << >>
    /\ requests[2].saved = << UserMessage(<< "hi" >>) >>
    /\ lsChatHistory = << UserMessage(<< "hi" >>) >>

(***************************************************************************)
(* C16.  An admitted send raises the day's usage count by exactly one, in  *)
(* the store, before its first request goes out; no step of the same day   *)
(* lowers the count afterwards, whatever the outcome of the send.          *)
(***************************************************************************)
ChatAdmittedStep == ChatSendStep /\ sends' = sends + 1

C16_CountedBeforeRequest ==
    /\ root = "App" =>
          \A i \in DOMAIN inflight :
              inflight[i].usageAtIssue =
                  [count |-> CountOn(inflight[i].usageAtEntry, inflight[i].day) + 1,
                   date |-> inflight[i].day]
    /\ (root = "Chat" /\ requests # << >>) =>
          \A i \in DOMAIN requests : requests[i].usage = lsDailyUsage

C16_CountStep ==
    /\ MainAdmittedStep =>
          /\ CountOn(lsUsage', now) = CountOn(lsUsage, now) + 1
          /\ mainDailyUsage' = lsUsage'
    /\ ChatAdmittedStep =>
          /\ CountOn(lsDailyUsage', today) = CountOn(lsDailyUsage, today) + 1
          /\ dailyUsage'.count = dailyUsage.count + 1
          /\ dailyUsage' = lsDailyUsage'
    /\ (root = "App" /\ now' = now /\ ~MainAdmittedStep) =>
          CountOn(lsUsage', now) = CountOn(lsUsage, now)
    /\ (root = "Chat" /\ ~ChatAdmittedStep) =>
          CountOn(lsDailyUsage', today) = CountOn(lsDailyUsage, today)

C16_SendCountsOnceNoRefund ==
    [](C16_CountedBeforeRequest) /\ [][C16_CountStep]_vars

\* A send of MainChat that was cancelled, its message still counted.
C16_Witness ==
    /\ root = "App"
    /\ event.type = "result"
    /\ event.result.isCancelled
    /\ event.run.usageAtEntry = NoItem
    /\ lsUsage = [count |-> 1, date |-> event.run.day]

(***************************************************************************)
(* C17.  A send of MainChat whose result is not cancelled ends with one    *)
(* assistant message directly after its user message, in the list shown    *)
(* and in the stored conversation it was sent from: the response text and  *)
(* the model used without an error flag on success, isError = TRUE and a   *)
(* readable text on failure.                                               *)
(***************************************************************************)
MainAnswered == root = "App" /\ event.type = "result" /\ ~event.result.isCancelled

\* The message lines 130-165 build for a result.
AnswerTo(result) ==
    IF result.success THEN AiMessage(result.text, result.modelUsed)
    ELSE ErrorMessage(result.text)

\* msgs is the run's messages up to its user message, then exactly answer.
AnsweredIn(msgs, run, answer) ==
    /\ msgs = Append(run.updatedMessages, answer)
    /\ msgs[Len(msgs) - 1] = MainUserMessage(run.prompt)

C17_AnswerShape ==
    MainAnswered =>
        LET answer == AnswerTo(event.result)
        IN  /\ answer.role = "ai"
            /\ event.result.success =>
                  /\ answer.text = event.result.text
                  /\ answer.modelUsed = event.result.modelUsed
                  /\ answer.modelUsed # ""
                  /\ ~("isError" \in DOMAIN answer)
            /\ ~event.result.success =>
                  /\ answer.isError = TRUE
                  /\ Includes(answer.text, "Sorry,")
                  /\ Len(answer.text) > Len(event.result.text)

C17_AnswerShown ==
    (MainAnswered /\ mainMounted = "yes") =>
        AnsweredIn(mainMessages, event.run, AnswerTo(event.result))

C17_AnswerStored ==
    MainAnswered =>
        LET chat == getChatById(lsChats, event.run.chatId)
        IN  /\ chat # NoItem
            /\ AnsweredIn(chat.messages, event.run, AnswerTo(event.result))

\* The claim as stated.
C17_AnswerAppendedAndPersisted ==
    C17_AnswerShape /\ C17_AnswerShown /\ C17_AnswerStored

(***************************************************************************)
(* C18.  A call of MainChat whose controller was aborted, while its        *)
(* request was pending or before its answer was looked at, returns a       *)
(* result flagged cancelled, and the handler drops it: the messages shown, *)
(* the notice and the stored conversations are left as they were, the      *)
(* stored conversation still ending with the user message of the send.     *)
(***************************************************************************)
MainResultStep == root = "App" /\ event'.type = "result"

C18_AbortedIsFlagged ==
    (root = "App" /\ event.type = "result"
        /\ controllers[event.run.ctl] = "aborted") => event.result.isCancelled

C18_CancelledLeavesStore ==
    (root = "App" /\ event.type = "result" /\ event.result.isCancelled) =>
        /\ lsChats = event.chatsBefore
        /\ LET chat == getChatById(lsChats, event.run.chatId)
           IN  chat # NoItem => chat.messages = event.run.updatedMessages

C18_CancelledStep ==
    (MainResultStep /\ event'.result.isCancelled) =>
        UNCHANGED << mainMessages, mainNotification, mainClears, lsChats >>

C18_CancelledIsDiscarded ==
    [](C18_AbortedIsFlagged /\ C18_CancelledLeavesStore) /\ [][C18_CancelledStep]_vars

\* A cancelled send returned; its conversation is stored as the send left it.
C18_Witness ==
    /\ root = "App"
    /\ event.type = "result"
    /\ event.result.isCancelled
    /\ controllers[event.run.ctl] = "aborted"
    /\ getChatById(lsChats, event.run.chatId) # NoItem
    /\ getChatById(lsChats, event.run.chatId).messages = event.run.updatedMessages
    /\ mainNotification = << >>

(***************************************************************************)
(* C19.  At most one call is pending at any time, in MainChat and in       *)
(* Chat.jsx: a send is admitted only when none is pending, so no           *)
(* conversation ever has two pending calls, cancelled or not.              *)
(***************************************************************************)
\* The runs of MainChat pending for a conversation whose controller is armed.
Uncancelled(chatId) ==
    { i \in DOMAIN inflight :
        inflight[i].chatId = chatId /\ controllers[inflight[i].ctl] = "armed" }

SubmittedWhilePending ==
    /\ MainSendStep
    /\ Trim(event'.text) # << >>
    /\ inflight # << >>

C20_PendingCallKept ==
    SubmittedWhilePending =>
        UNCHANGED << controllers, inflight, abortControllerRef, mainSends,
                     mainMessages, lsChats, isTyping >>

C20_NothingToAbort ==
    MainAdmittedStep => (abortControllerRef = 0 /\ inflight = << >>)

C20_AbortedByUnmountOnly ==
    root = "App" =>
        \A c \in DOMAIN controllers :
            controllers[c] = "aborted" => mainMounted = "gone"

Appended == event.type = "store" /\ event.op = "append"

IsPrefix(short, long) ==
    Len(short) <= Len(long) /\ SubSeq(long, 1, Len(short)) = short

C22_MainKeepsStored ==
    root = "App" =>
        \A c \in 1..(MaxChatId + 1) :
            (getChatById(lsChats, c) # NoItem /\ getChatById(lsChats', c) # NoItem)
                => IsPrefix(getChatById(lsChats, c).messages,
                            getChatById(lsChats', c).messages)

\* Chat.jsx has stored the conversation once it is mounted.
C22_ChatKeepsStored ==
    (root = "Chat" /\ mounted) => IsPrefix(lsChatHistory, lsChatHistory')

C22_StoredListsGrow == [][C22_MainKeepsStored /\ C22_ChatKeepsStored]_vars

(***************************************************************************)
(* C23.  With the storage unusable no operation of storage.js throws and   *)
(* none changes what is stored; when every access throws, an operation     *)
(* answers as it does on an empty store.  (A list that is stored as JSON   *)
(* of another shape is the subject of C24.)                                *)
(***************************************************************************)
StoreOp == event.type = "store" /\ event.op # "append"

\* The conversation-list key holds nothing, no JSON, or an array.
ListIsArray == IsArray(getChatHistory(localStorage, "yes"))

\* What the operation of the event answers on an empty store that takes no write.
EmptyStoreAnswer ==
    CASE event.op \in { "getDailyUsage", "incrementDailyUsage" } ->
            [count |-> 0, date |-> getTodayDateString(now)]
      [] event.op \in { "getChatHistory", "deleteChat" } -> JsArray(<< >>)
      [] event.op = "getCurrentChatId" -> NoItem
      [] event.op = "createNewChat" ->
            createNewChat(<< >>, event.args[1], event.args[2])[1]
      [] OTHER -> Undefined

C23_NoThrow ==
    /\ (StoreOp /\ lsAvailable = "no") =>
          (~event.threw /\ event.value = EmptyStoreAnswer)
    /\ (StoreOp /\ lsAvailable = "full" /\ ListIsArray) => ~event.threw

C23_NoWrite ==
    (event'.type = "store" /\ lsAvailable # "yes") => localStorage' = localStorage

C23_UnavailableStorage == [](C23_NoThrow) /\ [][C23_NoWrite]_vars

\* createNewChat returned its chat although a conversation is stored and no
\* access to the storage succeeds.
C23_Witness ==
    /\ StoreOp
    /\ event.op = "createNewChat"
    /\ lsAvailable = "no"
    /\ ~event.threw
    /\ event.value.id = 1
    /\ localStorage[STORAGE_KEYS.CHAT_HISTORY] \in
          { StringifyChats(chats) : chats \in SavedChats \ { << >> } }

(***************************************************************************)
(* C24.  Whatever string is stored under a key of storage.js (no JSON, or  *)
(* JSON of another shape), loading yields the empty default, and no        *)
(* operation that uses the loaded value throws.                            *)
(***************************************************************************)
C24_MalformedTolerated ==
    event.type = "store" =>
        /\ ~event.threw
        /\ event.op = "getChatHistory" => IsArray(event.value)
        /\ event.op = "getDailyUsage" => DOMAIN event.value = { "count", "date" }

(***************************************************************************)
(* C25.  A persist of a conversation whose title is still the placeholder  *)
(* of createNewChat sets the title to the first user message of the list,  *)
(* cut to 50 characters; a persist of a conversation whose title is no     *)
(* longer that placeholder leaves the title as it is.                      *)
(***************************************************************************)
\* The conversation stored under an id, for a list that is an array.
StoredChat(ls, chatId) == getChatById(getChatHistory(ls, "yes").elems, chatId)

\* This step persisted msgs for the stored conversation chatId.
Persisted(chatId, msgs) ==
    /\ root = "chats"
    /\ event'.type = "store"
    /\ event'.op = "updateChatMessages"
    /\ event'.args = << chatId, msgs >>
    /\ ~event'.threw
    /\ lsAvailable = "yes"
    /\ StoredChat(localStorage, chatId) # NoItem

HasUserMessage(msgs) == \E i \in DOMAIN msgs : msgs[i].role = "user"

FirstUserText(msgs) ==
    msgs[CHOOSE i \in DOMAIN msgs :
            /\ msgs[i].role = "user"
            /\ \A j \in 1..(i - 1) : msgs[j].role # "user"].text

C25_TitleStep ==
    \A chatId \in 1..MaxStoreChats, msgs \in StoreMessageLists :
        Persisted(chatId, msgs) =>
            LET old == StoredChat(localStorage, chatId)
                new == StoredChat(localStorage', chatId)
            IN  IF old.title # NewChatTitle(old.mode) THEN new.title = old.title
                ELSE IF HasUserMessage(msgs)
                THEN /\ Len(new.title) <= 50
                     /\ IsPrefix(new.title, FirstUserText(msgs))
                     /\ Len(new.title) = 50 \/ new.title = FirstUserText(msgs)
                ELSE new.title = old.title

C25_TitleDerivedOnce == [][C25_TitleStep]_vars


(***************************************************************************)
(* C26.  The history callGeminiAPI passes on has one entry per message of  *)
(* the conversation history it was given, in the same order and with the   *)
(* same text: the entry of a message of the assistant (role 'ai' in the    *)
(* code) has role "model", the entry of a user message has role "user".    *)
(***************************************************************************)
C26_HistoryRolesMapped ==
    \A r \in DOMAIN inflight :
        LET given == inflight[r].conversationHistory
            passed == inflight[r].history
        IN  /\ Len(passed) = Len(given)
            /\ \A i \in DOMAIN given :
                   /\ given[i].role = "ai" => passed[i].role = "model"
                   /\ given[i].role = "user" => passed[i].role = "user"
                   /\ given[i].role \in { "ai", "user" }
                   /\ given[i].text # << >> =>
                          passed[i].parts = << [text |-> given[i].text] >>

\* A call in flight whose history holds a user message followed by an answer.
C26_Witness ==
    \E r \in DOMAIN inflight :
        LET given == inflight[r].conversationHistory
        IN  \E i, j \in DOMAIN given :
                /\ i < j
                /\ given[i].role = "user"
                /\ given[j].role = "ai"


(***************************************************************************)
(* C27.  An admitted send of MainChat appends a user message, sends its    *)
(* text as the prompt, and passes as history the messages the current      *)
(* conversation held before the send, in their order and without the       *)
(* appended one; with no earlier message the prompt goes out alone         *)
(* (generateContent), otherwise on a chat started with the history.        *)
(***************************************************************************)
\* The call the admitted send of this step has issued.
IssuedRun == inflight'[Len(inflight')]

\* The messages stored for the current conversation before the step.
EarlierMessages ==
    IF getChatById(lsChats, currentChatId) = NoItem THEN << >>
    ELSE getChatById(lsChats, currentChatId).messages

C27_PromptIsAppended ==
    MainAdmittedStep =>
        /\ IssuedRun.updatedMessages # << >>
        /\ IssuedRun.updatedMessages[Len(IssuedRun.updatedMessages)]
              = MainUserMessage(IssuedRun.prompt)
        /\ IssuedRun.prompt = Trim(event'.text)
        /\ mainMessages' = IssuedRun.updatedMessages

C27_HistoryIsEarlier ==
    MainAdmittedStep =>
        /\ IssuedRun.conversationHistory = EarlierMessages
        /\ IssuedRun.updatedMessages
              = Append(EarlierMessages, MainUserMessage(IssuedRun.prompt))

C27_EmptyHistoryBarePrompt ==
    MainAdmittedStep =>
        /\ IssuedRun.api = "generateContent" <=> EarlierMessages = << >>
        /\ IssuedRun.api = "sendMessage" <=> EarlierMessages # << >>

C27_PromptAndHistory ==
    [][C27_PromptIsAppended /\ C27_HistoryIsEarlier /\ C27_EmptyHistoryBarePrompt]_vars


(***************************************************************************)
(* C28.  A send of Chat.jsx that is neither empty nor made during another  *)
(* send, on a day later than the day of the usage record the component     *)
(* holds since its mount, is admitted whatever the count of that record,   *)
(* and leaves the stored record at count 1 dated with the day of the send. *)
(***************************************************************************)
\* The step is a send on a day after the one the component's record is of.
ChatSendOnLaterDay ==
    /\ ChatSendStep
    /\ mounted
    /\ ~SendRejected(event'.text, isLoading)
    /\ dailyUsage.date < today

C28_Admitted == ChatSendOnLaterDay => sends' = sends + 1

C28_RecordRestarted ==
    ChatSendOnLaterDay => lsDailyUsage' = [count |-> 1, date |-> today]

C28_LazyResetOnSend == [][C28_Admitted /\ C28_RecordRestarted]_vars


(***************************************************************************)
(* C29.  A send that handleSendMessage rejects leaves a notice on screen   *)
(* that tells why: one notice for an empty input, another for a send made  *)
(* while a call is in flight, and the daily-limit notice for a send at the *)
(* limit; the first two are not the daily-limit notice.                    *)
(***************************************************************************)
\* The notice a rejection for the given reasons leaves: the limit notice for
\* the limit, some other notice for an empty input or a pending call.
NoticeTells(notice, empty, busy, limited, limitNotice) ==
    /\ (empty \/ busy) => (notice # << >> /\ notice # limitNotice)
    /\ (~empty /\ ~busy /\ limited) => notice = limitNotice

C29_MainNotice ==
    (MainSendStep /\ mainMounted = "yes") =>
        NoticeTells(mainNotification', Trim(event'.text) = << >>, isTyping,
                    isDailyLimitReached(lsUsage, now), MainLimitNotice)

C29_ChatNotice ==
    (ChatSendStep /\ mounted) =>
        NoticeTells(notification', Trim(event'.text) = << >>, isLoading,
                    dailyUsage.count >= MAX_DAILY_MESSAGES, LimitNotice)

OnlyLimitNoticed(before, after, empty, busy, limited, limitNotice) ==
    /\ (empty \/ busy) => after = before
    /\ (~empty /\ ~busy /\ limited) => (after = limitNotice /\ after # << >>)

C29_MainOnlyLimit ==
    (MainSendStep /\ mainMounted = "yes") =>
        OnlyLimitNoticed(mainNotification, mainNotification',
                         Trim(event'.text) = << >>, isTyping,
                         isDailyLimitReached(lsUsage, now), MainLimitNotice)

C29_ChatOnlyLimit ==
    (ChatSendStep /\ mounted) =>
        OnlyLimitNoticed(notification, notification',
                         Trim(event'.text) = << >>, isLoading,
                         dailyUsage.count >= MAX_DAILY_MESSAGES, LimitNotice)

ModeChangeStep == root = "App" /\ event'.type = "mode"

C30_ExistingIsReused ==
    (ModeChangeStep /\ ModeChatIds(lsChats, activeMode') # { }) =>
        /\ lsChats' = lsChats
        /\ currentChatId' \in ModeChatIds(lsChats, activeMode')

C30_CreatedWhenNone ==
    (ModeChangeStep /\ ModeChatIds(lsChats, activeMode') = { }) =>
        /\ lsChats' = createNewChat(lsChats, activeMode', nextId)
        /\ currentChatId' = nextId

C30_FindOrCreate == [][C30_ExistingIsReused /\ C30_CreatedWhenNone]_vars


(***************************************************************************)
(* C31.  Over any sequence of generateResponse calls currentKeyIndex is an *)
(* index of apiKeys; the requests of one call use the keys in cyclic order *)
(* from the index held at entry, no key twice; and when a call has         *)
(* returned the provider's response, currentKeyIndex is the index of the   *)
(* key that request used, which is where the next call starts.             *)
(***************************************************************************)
C31_IndexInRange ==
    root = "MainChat" => currentKeyIndex \in 0..(Len(apiKeys) - 1)

C31_CyclicFromEntry ==
    root = "MainChat" =>
        /\ Len(issued) <= Len(apiKeys)
        /\ \A i \in DOMAIN issued :
               issued[i].keyIdx = (keyIndexAtEntry + i - 1) % Len(apiKeys)
        /\ \A i, j \in DOMAIN issued :
               issued[i].keyIdx = issued[j].keyIdx => i = j

\* The call has ended by returning what the provider answered.
ReturnedResponse ==
    /\ root = "MainChat"
    /\ gpc = "idle"
    /\ lastOutcome # NoResult
    /\ lastOutcome.kind = "resolve"
    /\ ~apiResult.isCancelled

C31_StaysOnWorkingKey ==
    ReturnedResponse => currentKeyIndex = issued[Len(issued)].keyIdx

C31_KeyIndexDiscipline ==
    C31_IndexInRange /\ C31_CyclicFromEntry /\ C31_StaysOnWorkingKey

\* A second call that started where the first one stopped, away from key 0,
\* has rotated and then returned a response.
C31_Witness ==
    /\ ReturnedResponse
    /\ calls = 2
    /\ keyIndexAtEntry # 0
    /\ rotations >= 1


(***************************************************************************)
(* C32.  In Chat.jsx the model index of the stored cursor never decreases  *)
(* over the sends of a session, and a send attempts no model before the    *)
(* cursor it started with: a send whose attempts at the models from the    *)
(* cursor to the end of the table all fail retryably ends with the         *)
(* fallback text and the cursor where it was, whatever an earlier model    *)
(* would have answered.                                                    *)
(***************************************************************************)
C32_CursorNeverDecreases ==
    (root = "Chat" /\ lsModelConfig # NoItem) =>
        /\ lsModelConfig' # NoItem
        /\ lsModelConfig'.modelIndex >= lsModelConfig.modelIndex

\* An admitted send starts at the stored cursor.
C32_StartsAtCursor ==
    ChatAdmittedStep =>
        /\ entryModelIndex' = lsModelConfig.modelIndex
        /\ entryKeyIndex' = lsModelConfig.keyIndex

C32_NoEarlierModel ==
    (root = "Chat" /\ mounted) =>
        /\ \A i \in DOMAIN requests : requests[i].modelIdx >= entryModelIndex
        /\ \A i, j \in DOMAIN requests :
               i <= j => requests[i].modelIdx <= requests[j].modelIdx
        /\ lsModelConfig.modelIndex >= entryModelIndex

\* A send has ended after a retryable failure of its last attempt: every
\* attempt of it failed retryably.
EndedOnRetryable ==
    ChatSendFinished /\ lastResp # NoResult /\ RespRetryable(lastResp)

C32_ExhaustedFromCursor ==
    EndedOnRetryable =>
        /\ sendResult = [success |-> FALSE, botText |-> FallbackText]
        /\ { requests[i].modelIdx : i \in DOMAIN requests }
              = entryModelIndex..(Len(MODEL_CONFIG) - 1)
        /\ lsModelConfig.modelIndex = entryModelIndex

C32_CursorOnlyAdvances ==
    /\ [](C32_NoEarlierModel /\ C32_ExhaustedFromCursor)
    /\ [][C32_CursorNeverDecreases /\ C32_StartsAtCursor]_vars

\* The first send of the session was answered; the second started at a
\* cursor past model 0 and was exhausted without a request to model 0.
C32_Witness ==
    /\ EndedOnRetryable
    /\ sends = 2
    /\ entryModelIndex > 0
    /\ cursorWrites = 0
    /\ Len(messages) = 4
    /\ messages[2] = BotMessage(<< "hello" >>)
    /\ messages[4] = BotMessage(FallbackText)


(***************************************************************************)
(* C33.  If every pending request settles, the in-flight flag set by an    *)
(* admitted send is cleared again: isLoading of Chat.jsx always, isTyping  *)
(* of MainChat unless the component is unmounted first.                    *)
(***************************************************************************)
ChatBusy == root = "Chat" /\ isLoading
MainBusy == root = "App" /\ mainMounted = "yes" /\ isTyping

C33_ChatFlagClears == ChatBusy ~> (root = "Chat" /\ ~isLoading)

C33_MainFlagClears == MainBusy ~> (root = "App" /\ (~isTyping \/ mainMounted = "gone"))

C33_FlagClears == C33_ChatFlagClears /\ C33_MainFlagClears

\* A send of MainChat that went through a failed attempt has its result, and
\* the flag is clear.
C33_Witness ==
    /\ root = "App"
    /\ mainMounted = "yes"
    /\ event.type = "result"
    /\ event.run.attempts >= 1
    /\ ~isTyping
    /\ inflight = << >>


(***************************************************************************)
(* C34.  In MainChat a result that arrives after another conversation was  *)
(* made current changes the stored messages of the conversation it was     *)
(* sent from and of no other, and does not put that conversation's         *)
(* messages on screen: whenever no call is in flight, the messages shown   *)
(* are the stored messages of the current conversation.                    *)
(***************************************************************************)
C34_StoredToSenderOnly ==
    MainResultStep =>
        \A c \in 1..(MaxChatId + 1) :
            c # event'.run.chatId => getChatById(lsChats', c) = getChatById(lsChats, c)

C34_ShownIsCurrent ==
    (root = "App" /\ mainMounted = "yes" /\ inflight = << >>) =>
        /\ getChatById(lsChats, currentChatId) # NoItem
        /\ mainMessages = getChatById(lsChats, currentChatId).messages

C34_LateResultStaysWithSender ==
    [](C34_ShownIsCurrent) /\ [][C34_StoredToSenderOnly]_vars


(***************************************************************************)
(* C36.  The active-conversation pointer stored under                      *)
(* 'ryunex_current_chat_id', when present, is the id of a conversation of  *)
(* the stored conversation list.                                           *)
(***************************************************************************)
StoredPointer == localStorage[STORAGE_KEYS.CURRENT_CHAT_ID]

C36_PointerIsListed ==
    (root = "chats" /\ StoredPointer # NoItem) =>
        /\ IsArray(getChatHistory(localStorage, "yes"))
        /\ StoredChat(localStorage, StoredPointer.digits) # NoItem


(***************************************************************************)
(* C37.  In Chat.jsx, once mounted, the conversation list is not empty and *)
(* currentChatId is the id of a conversation of the list, whatever         *)
(* conversations are created and deleted; deleting the last conversation   *)
(* leaves a fresh one as the list, deleting the current one selects the    *)
(* first that remains.                                                     *)
(***************************************************************************)
C37_CurrentInList ==
    (root = "Chat" /\ mounted) =>
        /\ Len(conversations) > 0
        /\ chatCurrentId \in ConversationIds(conversations)

ChatDeleteStep == root = "Chat" /\ event'.type = "delete"

C37_DeleteSelects ==
    ChatDeleteStep =>
        LET remaining == FilterConversations(conversations, event'.chatId)
        IN  IF remaining = << >>
            THEN /\ conversations' = << NewConversation(chatCurrentId') >>
                 /\ chatCurrentId' \notin ConversationIds(conversations)
            ELSE /\ conversations' = remaining
                 /\ event'.chatId = chatCurrentId => chatCurrentId' = remaining[1].id
                 /\ event'.chatId # chatCurrentId => chatCurrentId' = chatCurrentId

C37_CurrentConversationExists ==
    [](C37_CurrentInList) /\ [][C37_DeleteSelects]_vars

\* The current conversation was deleted while another one remained.
C37_Witness ==
    /\ root = "Chat"
    /\ event.type = "delete"
    /\ event.chatId = event.current
    /\ event.left > 0
    /\ chatCurrentId = conversations[1].id


(***************************************************************************)
(* C35.  The result of a call whose conversation was deleted while the     *)
(* call was in flight changes nothing that is stored: in MainChat the      *)
(* stored conversation list stays as it is, in Chat.jsx the conversation   *)
(* list and its stored copy stay as they are.  The conversation is not     *)
(* created again and no message is added.                                  *)
(***************************************************************************)
C35_MainStoreUnchanged ==
    (MainResultStep /\ getChatById(lsChats, event'.run.chatId) = NoItem) =>
        lsChats' = lsChats

ChatResultStep == root = "Chat" /\ pc = "fetch" /\ pc' = "idle"

C35_ChatListUnchanged ==
    (ChatResultStep /\ sendChatId \notin ConversationIds(conversations)) =>
        /\ conversations' = conversations
        /\ lsConversations' = lsConversations

C35_DeletedStaysDeleted ==
    [][C35_MainStoreUnchanged /\ C35_ChatListUnchanged]_vars

\* MainChat received an answer for a conversation that was no longer stored.
C35_Witness ==
    /\ root = "App"
    /\ event.type = "result"
    /\ ~event.result.isCancelled
    /\ event.run.chatId # 0
    /\ getChatById(event.chatsBefore, event.run.chatId) = NoItem
    /\ getChatById(lsChats, event.run.chatId) = NoItem

====
